---- MODULE Spec2Model ----
(***************************************************************************)
(* Road-graph accessibility engine of SiteX (backend/app): RoadNetwork,    *)
(* RoadTypeNetwork, their loaders and the aggregation layer.               *)
(*                                                                         *)
(* Geometry: all points lie on one meridian, StepM metres apart, so that   *)
(* the haversine distance of two points is the absolute difference of      *)
(* their positions in metres and the nearest node in degree space is the   *)
(* nearest node in metres.  Kilometre quantities of the code are kept in   *)
(* integer metres.  float("inf") is Inf, larger than every model distance. *)
(* An Optional value is <<>> (None) or <<v>>.                              *)
(***************************************************************************)
EXTENDS Integers, Sequences, FiniteSets, TLC

\* ---------------------------------------------------------------- bounds
MaxStep == 4
StepM == 100
MaxNodes == 2
MaxCalls == 3
MaxCacheCalls == 12
NumThreads == 2
MaxThreadCalls == 1
MaxClock == 3
MaxPois == 2
MaxRingCalls == 1
MaxLines == 2
MaxEdits == 2
WeightUnit == 1000

\* ------------------------------------------------------ program constants
ROAD_SNAP_TOLERANCE_M == 120
SECONDARY_SNAP_TOLERANCE_M == 300
Inf == 1000000
_paths_cache_size == 8
_CACHE_SCHEMA_VERSION == 1

None == <<>>
Some(v) == <<v>>
Val(o) == o[1]

Points == {i * StepM : i \in 0..MaxStep}

MaxOf(a, b) == IF a >= b THEN a ELSE b
SetMin(S) == CHOOSE x \in S : \A y \in S : x <= y
SetMax(S) == CHOOSE x \in S : \A y \in S : x >= y

VARIABLES
    node_coords,        \* RoadNetwork.node_coords: node id -> position
    snap_tolerance_m,   \* RoadNetwork.snap_tolerance_m
    tie_pref,           \* which of several equidistant nodes the index returns
    graph,              \* RoadNetwork.graph: [nodes, weight: edge {u, v} -> metres]
    snap_out,           \* the last snap call and what it returned
    _paths_cache,       \* RoadNetwork._paths_cache, oldest entry first
    paths_out,          \* the last path query and what it returned
    ncalls,             \* number of path queries made so far
    recency,            \* history: the keys looked up in the cache, least recent first
    threads,            \* per request thread: where it is in its path query
    variant,            \* the class in use: "RoadNetwork" or "RoadTypeNetwork"
    clock,              \* the file system's time
    source_mtime,       \* modification time of Roadway.geojson
    cache_file,         \* the pickle next to it: None or [mtime, version, payload]
    load_out,           \* the last from_geojson call and its outcome
    guard,              \* which loader is called: "module" or "method"
    lru_slot,           \* the one entry of its lru_cache: None or [key, val]
    nbuilds,            \* how often the GeoJSON was parsed and the graph built
    nwrites,            \* how often a cache file was written in full
    poi_df,             \* per category the POI table: row index -> latitude or None
    ring_out,           \* the last ring_summary call and its result
    rt_out,             \* the last road-type accessibility call and its response
    features,           \* the GeoJSON features the builder has still to read
    vertex_ids,         \* history: each vertex the builder read and the node id it got
    poi_file,           \* per category the CSV on disk: [mtime, content]
    _df_cache,          \* SiteAnalysisService._df_cache: per category None or [mtime, content]
    df_out,             \* the last load_category_df call and what it returned
    nearby_out,         \* the last nearby call and its items
    ndm_out,            \* the last _network_distance_map call and its result
    weight_out,         \* the last _weight call and its value
    pathmap_out         \* the last _network_path_map call and its paths

netVars == <<node_coords, snap_tolerance_m, tie_pref, graph>>
pathVars == <<_paths_cache, paths_out, ncalls, recency>>
diskVars == <<variant, clock, source_mtime, cache_file, load_out>>
loadVars == <<guard, lru_slot, nbuilds, nwrites>>
moreVars == <<features, vertex_ids, poi_file, _df_cache, df_out, nearby_out, ndm_out,
             weight_out, pathmap_out>>
svcVars == <<poi_df, ring_out, rt_out, moreVars>>
vars == <<netVars, snap_out, pathVars, threads, diskVars, loadVars, svcVars>>

NoGraph == [nodes |-> {}, weight |-> <<>>]
IdleSnap == snap_out = [op |-> "none"]
Threads == 1..NumThreads
IdleThreads == threads = [t \in Threads |-> [at |-> "idle", calls |-> 0]]
IdleDisk ==
    /\ variant = "RoadNetwork"
    /\ clock = 1
    /\ source_mtime = 1
    /\ cache_file = None
    /\ load_out = [op |-> "none"]
IdleLoad ==
    /\ guard = "module"
    /\ lru_slot = None
    /\ nbuilds = 0
    /\ nwrites = 0
IdleMore ==
    /\ features = <<>>
    /\ vertex_ids = <<>>
    /\ poi_file = <<>>
    /\ _df_cache = <<>>
    /\ df_out = [op |-> "none"]
    /\ nearby_out = [op |-> "none"]
    /\ ndm_out = [op |-> "none"]
    /\ weight_out = [op |-> "none"]
    /\ pathmap_out = [op |-> "none"]
IdleSvc ==
    /\ poi_df = <<>>
    /\ ring_out = [op |-> "none"]
    /\ rt_out = [op |-> "none"]
    /\ IdleMore
IdlePaths ==
    _paths_cache = <<>> /\ paths_out = [op |-> "none"] /\ ncalls = 0 /\ recency = <<>>

\* ------------------------------------------------------------- snapping
_haversine_pair(a, b) == IF a >= b THEN a - b ELSE b - a

node_count(coords) == Cardinality(DOMAIN coords)

\* np.argmin returns the first minimum; the k-d tree returns one fixed
\* neighbour per (tree, query): tie is "low" or "high" for the instance.
_nearest_node_index(coords, tie, lat) ==
    IF node_count(coords) = 0 THEN None
    ELSE LET sq(i) == (coords[i] - lat) * (coords[i] - lat)
             best == {i \in DOMAIN coords : \A j \in DOMAIN coords : sq(i) <= sq(j)}
         IN  Some(IF tie = "low" THEN SetMin(best) ELSE SetMax(best))

Unsnapped == [node |-> None, offset |-> None]

\* a plausible slip: the tolerance comparison inverted
snap_point_inverted(coords, tie, tol, lat, max_snap_m) ==
    IF node_count(coords) = 0 THEN Unsnapped
    ELSE LET idx == _nearest_node_index(coords, tie, lat) IN
         IF idx = None THEN Unsnapped
         ELSE LET dist == _haversine_pair(lat, coords[Val(idx)])
                  threshold == IF max_snap_m # None THEN Val(max_snap_m) ELSE tol
              IN  IF threshold <= 0 \/ dist >= threshold
                  THEN [node |-> idx, offset |-> Some(dist)]
                  ELSE Unsnapped

snap_point(coords, tie, tol, lat, max_snap_m) ==
    IF node_count(coords) = 0 THEN Unsnapped
    ELSE LET idx == _nearest_node_index(coords, tie, lat) IN
         IF idx = None THEN Unsnapped
         ELSE LET dist == _haversine_pair(lat, coords[Val(idx)])
                  threshold == IF max_snap_m # None THEN Val(max_snap_m) ELSE tol
              IN  IF threshold <= 0 \/ dist <= threshold
                  THEN [node |-> idx, offset |-> Some(dist)]
                  ELSE Unsnapped

\* a plausible slip: the batch path forgets the tolerance test
snap_points_unchecked(coords, tie, tol, lats, max_snap_m) ==
    [nodes |-> [i \in DOMAIN lats |->
                    IF node_count(coords) = 0 \/ lats[i] = None THEN None
                    ELSE _nearest_node_index(coords, tie, Val(lats[i]))],
     offsets |-> [i \in DOMAIN lats |->
                    IF node_count(coords) = 0 \/ lats[i] = None THEN Inf
                    ELSE _haversine_pair(Val(lats[i]),
                             coords[Val(_nearest_node_index(coords, tie, Val(lats[i])))])]]

\* lats[i] = None is a missing or non-finite coordinate: masked out by
\* valid_mask on the tree path, skipped by the loop on the linear path.
snap_points(coords, tie, tol, lats, max_snap_m) ==
    LET threshold == IF max_snap_m # None THEN Val(max_snap_m) ELSE tol
        one(i) ==
            IF node_count(coords) = 0 \/ lats[i] = None THEN [node |-> None, offset |-> Inf]
            ELSE LET idx == _nearest_node_index(coords, tie, Val(lats[i]))
                     dist == _haversine_pair(Val(lats[i]), coords[Val(idx)])
                 IN  IF threshold <= 0 \/ dist <= threshold
                     THEN [node |-> idx, offset |-> dist]
                     ELSE [node |-> None, offset |-> Inf]
    IN  [nodes |-> [i \in DOMAIN lats |-> one(i).node],
         offsets |-> [i \in DOMAIN lats |-> one(i).offset]]

\* RoadNetwork.__init__
RoadNetworkTolerance(arg) == MaxOf(arg, 0)

SnapToleranceArgs == {0 - StepM, 0, ROAD_SNAP_TOLERANCE_M}
MaxSnapArgs == {None, Some(0 - StepM), Some(0), Some(ROAD_SNAP_TOLERANCE_M),
                Some(SECONDARY_SNAP_TOLERANCE_M), Some(Inf)}

\* node tables the builder can produce: distinct positions, ids 0..n-1
NodeTables ==
    UNION {{f \in [0..(n - 1) -> Points] : \A i, j \in 0..(n - 1) : i # j => f[i] # f[j]}
           : n \in 0..MaxNodes}

LatBatches == UNION {[1..n -> {None} \cup {Some(p) : p \in {0, MaxStep * StepM}}] : n \in 1..2}

InitSnap ==
    /\ node_coords \in NodeTables
    /\ snap_tolerance_m \in {RoadNetworkTolerance(a) : a \in SnapToleranceArgs}
    /\ tie_pref \in {"low", "high"}
    /\ graph = [nodes |-> DOMAIN node_coords, weight |-> <<>>]
    /\ IdleSnap
    /\ IdlePaths
    /\ IdleThreads
    /\ IdleDisk
    /\ IdleLoad
    /\ IdleSvc

SnapPoint ==
    \E lat \in Points, m \in MaxSnapArgs :
        /\ snap_out' = [op |-> "snap_point", lat |-> lat, max_snap_m |-> m,
                        threshold |-> IF m # None THEN Val(m) ELSE snap_tolerance_m,
                        res |-> snap_point(node_coords, tie_pref, snap_tolerance_m, lat, m)]
        /\ UNCHANGED <<netVars, pathVars, threads, diskVars, loadVars, svcVars>>

SnapPoints ==
    \E lats \in LatBatches, m \in MaxSnapArgs :
        /\ snap_out' = [op |-> "snap_points", lats |-> lats, max_snap_m |-> m,
                        threshold |-> IF m # None THEN Val(m) ELSE snap_tolerance_m,
                        res |-> snap_points(node_coords, tie_pref, snap_tolerance_m, lats, m)]
        /\ UNCHANGED <<netVars, pathVars, threads, diskVars, loadVars, svcVars>>

NextSnap == SnapPoint \/ SnapPoints

SpecSnap == InitSnap /\ [][NextSnap]_vars

\* ------------------------------------------------------------ claims C2, C3
LastSnapPoint == snap_out.op = "snap_point"
LastSnapPoints == snap_out.op = "snap_points"
Tolerances == {Val(m) : m \in MaxSnapArgs \ {None}}

SnapOffsetWithin(node, offset, threshold) ==
    node # None => (offset < Inf /\ offset <= threshold)

EmptyDict == <<>>

Neighbors(g, v) == {u \in g.nodes : {u, v} \in DOMAIN g.weight /\ u # v}

\* networkx _dijkstra_multisource: dist holds the final distances, seen the
\* tentative ones; the fringe entry with the least distance is popped next.
RECURSIVE DijkstraLoop(_, _, _, _)
DijkstraLoop(g, cutoff, dist, seen) ==
    LET fringe == DOMAIN seen \ DOMAIN dist IN
    IF fringe = {} THEN dist
    ELSE LET v == CHOOSE x \in fringe : \A y \in fringe : seen[x] <= seen[y]
             d == seen[v]
             vu_dist(u) == d + g.weight[{u, v}]
             relaxed == {u \in Neighbors(g, v) :
                            /\ ~(cutoff # None /\ vu_dist(u) > Val(cutoff))
                            /\ u \notin DOMAIN dist /\ u # v
                            /\ (u \notin DOMAIN seen \/ vu_dist(u) < seen[u])}
         IN  DijkstraLoop(g, cutoff, dist @@ (v :> d),
                 [u \in DOMAIN seen \cup relaxed |->
                     IF u \in relaxed THEN vu_dist(u) ELSE seen[u]])

single_source_dijkstra_path_length(g, source, cutoff) ==
    DijkstraLoop(g, cutoff, EmptyDict, (source :> 0))

\* OrderedDict helpers: index of a key (0 if absent), move_to_end, insert
\* a plausible slip: an entry is looked up by its node alone
CacheIndex_node_only(cache, key) ==
    IF \E i \in 1..Len(cache) : cache[i].key[1] = key[1]
    THEN CHOOSE i \in 1..Len(cache) : cache[i].key[1] = key[1]
    ELSE 0

CacheIndex(cache, key) ==
    IF \E i \in 1..Len(cache) : cache[i].key = key
    THEN CHOOSE i \in 1..Len(cache) : cache[i].key = key
    ELSE 0

\* a plausible slip: a hit leaves the entry where it is (first in, first out)
MoveToEnd_forgotten(cache, i) == cache

MoveToEnd(cache, i) ==
    [j \in 1..Len(cache) |->
        IF j < i THEN cache[j] ELSE IF j < Len(cache) THEN cache[j + 1] ELSE cache[i]]

CacheInsert(cache, key, lengths) ==
    LET inserted == Append(cache, [key |-> key, val |-> lengths])
    IN  IF Len(inserted) > _paths_cache_size THEN Tail(inserted) ELSE inserted

\* a plausible slip: the cache is looked up by source node only
shortest_paths_from_node_key(g, cache, node_id, cutoff) ==
    IF node_id \notin g.nodes THEN [cache |-> cache, res |-> EmptyDict, hit |-> FALSE]
    ELSE LET key == <<node_id, cutoff>>
             i == IF \E j \in 1..Len(cache) : cache[j].key[1] = node_id
                  THEN CHOOSE j \in 1..Len(cache) : cache[j].key[1] = node_id
                  ELSE 0
         IN  IF i # 0
             THEN [cache |-> MoveToEnd(cache, i), res |-> cache[i].val, hit |-> TRUE]
             ELSE LET lengths == single_source_dijkstra_path_length(g, node_id, cutoff)
                  IN  [cache |-> CacheInsert(cache, key, lengths), res |-> lengths,
                       hit |-> FALSE]

shortest_paths_from(g, cache, node_id, cutoff) ==
    IF node_id \notin g.nodes THEN [cache |-> cache, res |-> EmptyDict, hit |-> FALSE]
    ELSE LET key == <<node_id, cutoff>>
             i == CacheIndex(cache, key)
         IN  IF i # 0
             THEN [cache |-> MoveToEnd(cache, i), res |-> cache[i].val, hit |-> TRUE]
             ELSE LET lengths == single_source_dijkstra_path_length(g, node_id, cutoff)
                  IN  [cache |-> CacheInsert(cache, key, lengths), res |-> lengths,
                       hit |-> FALSE]

OrZero(o) == IF o = None THEN 0 ELSE Val(o)

\* a plausible slip: the offsets are left out of a looked-up length
path_len_total_no_offsets(lengths, target_node, offsets) ==
    IF target_node \in DOMAIN lengths THEN Some(lengths[target_node]) ELSE None

\* path_len = lengths.get(target_node), and what is returned for it
path_len_total(lengths, target_node, offsets) ==
    IF target_node \in DOMAIN lengths THEN Some(lengths[target_node] + offsets) ELSE None

distance_between(coords, tie, tol, g, cache, lat_a, lat_b, max_snap_m) ==
    LET source == snap_point(coords, tie, tol, lat_a, max_snap_m)
        target == snap_point(coords, tie, tol, lat_b, max_snap_m)
        offsets == OrZero(source.offset) + OrZero(target.offset)
    IN  IF source.node = None \/ target.node = None
        THEN [cache |-> cache, res |-> None, hit |-> FALSE]
        ELSE IF source.node = target.node
        THEN [cache |-> cache, res |-> Some(offsets), hit |-> FALSE]
        ELSE LET cache_key == <<Val(source.node), None>>
                 i == CacheIndex(cache, cache_key)
                 lookup(lengths) == path_len_total(lengths, Val(target.node), offsets)
             IN  IF i # 0
                 THEN [cache |-> MoveToEnd(cache, i), res |-> lookup(cache[i].val),
                       hit |-> TRUE]
                 ELSE LET lengths == single_source_dijkstra_path_length(
                                         g, Val(source.node), None)
                      IN  [cache |-> CacheInsert(cache, cache_key, lengths),
                           res |-> lookup(lengths), hit |-> FALSE]

\* ------------------------------------------- path queries on built graphs
PathCoords == [i \in 0..2 |-> IF i = 0 THEN 0 ELSE IF i = 1 THEN StepM ELSE 3 * StepM]
NodePairs(nodes) == {{u, v} : u, v \in nodes} \ {{u} : u \in nodes}

\* _add_line_to_graph stores the haversine length of the segment as weight
BuiltGraphs(coords) ==
    {[nodes |-> DOMAIN coords,
      weight |-> [e \in E |->
                    LET u == CHOOSE x \in e : TRUE
                        v == CHOOSE y \in e : y # u
                    IN  _haversine_pair(coords[u], coords[v])]]
     : E \in SUBSET NodePairs(DOMAIN coords)}

Cutoffs == {None, Some(0), Some(2 * StepM), Some(5 * StepM)}
NodeArgs == 0..3
PathPoints == {0, 4 * StepM, 6 * StepM}
PathSnapArgs == {None, Some(Inf)}

InitPaths ==
    /\ node_coords = PathCoords
    /\ snap_tolerance_m = RoadNetworkTolerance(ROAD_SNAP_TOLERANCE_M)
    /\ tie_pref = "low"
    /\ graph \in BuiltGraphs(PathCoords)
    /\ IdleSnap
    /\ IdlePaths
    /\ IdleThreads
    /\ IdleDisk
    /\ IdleLoad
    /\ IdleSvc

ShortestPathsFrom ==
    \E node_id \in NodeArgs, cutoff \in Cutoffs :
        /\ ncalls < MaxCalls
        /\ LET r == shortest_paths_from(graph, _paths_cache, node_id, cutoff) IN
            /\ _paths_cache' = r.cache
            /\ paths_out' = [op |-> "shortest_paths_from", node_id |-> node_id,
                             cutoff |-> cutoff, res |-> r.res, hit |-> r.hit]
        /\ ncalls' = ncalls + 1
        /\ UNCHANGED <<netVars, snap_out, recency, threads, diskVars, loadVars, svcVars>>

DistanceBetween ==
    \E lat_a \in PathPoints, lat_b \in PathPoints, m \in PathSnapArgs :
        /\ ncalls < MaxCalls
        /\ LET r == distance_between(node_coords, tie_pref, snap_tolerance_m, graph,
                                     _paths_cache, lat_a, lat_b, m) IN
            /\ _paths_cache' = r.cache
            /\ paths_out' = [op |-> "distance_between", lat_a |-> lat_a, lat_b |-> lat_b,
                             max_snap_m |-> m, res |-> r.res, hit |-> r.hit]
        /\ ncalls' = ncalls + 1
        /\ UNCHANGED <<netVars, snap_out, recency, threads, diskVars, loadVars, svcVars>>

NextPaths == ShortestPathsFrom \/ DistanceBetween

SpecPaths == InitPaths /\ [][NextPaths]_vars

\* ------------------------------------------------------------------ claim C1
\* the walks of g from s to v that repeat no node, and their lengths
RECURSIVE WalksFrom(_, _, _)
WalksFrom(g, walk, v) ==
    LET last == walk[Len(walk)] IN
    IF last = v THEN {walk}
    ELSE UNION {WalksFrom(g, Append(walk, u), v) :
                    u \in {x \in Neighbors(g, last) : \A i \in 1..Len(walk) : walk[i] # x}}

WalkLength(g, walk) ==
    LET RECURSIVE upto(_)
        upto(i) == IF i <= 1 THEN 0 ELSE upto(i - 1) + g.weight[{walk[i - 1], walk[i]}]
    IN  upto(Len(walk))

Connected(g, s, v) == WalksFrom(g, <<s>>, v) # {}
GraphDistance(g, s, v) == SetMin({WalkLength(g, w) : w \in WalksFrom(g, <<s>>, v)})

LastShortestPaths == paths_out.op = "shortest_paths_from"

\* C1: for every node s of the graph and every cutoff c, every entry of
\* shortest_paths_from(s, c) has a distance <= c, the entry of s is 0, and a
\* node that is unreachable or farther than c is absent (no entry but that of
\* s is 0); freshly computed or served from the path cache.
C1_CutoffBounded ==
    (LastShortestPaths /\ paths_out.node_id \in graph.nodes) =>
        LET s == paths_out.node_id
            c == paths_out.cutoff
            res == paths_out.res
        IN  /\ s \in DOMAIN res /\ res[s] = 0
            /\ \A v \in DOMAIN res :
                /\ c # None => res[v] <= Val(c)
                /\ v # s => res[v] > 0
            /\ \A v \in graph.nodes :
                (~Connected(graph, s, v) \/ (c # None /\ GraphDistance(graph, s, v) > Val(c)))
                    => v \notin DOMAIN res

\* a tree served from the cache that keeps a near node and drops a connected
\* node beyond the cutoff
C1_Witness ==
    /\ LastShortestPaths
    /\ paths_out.hit
    /\ paths_out.cutoff # None
    /\ \E u, v \in graph.nodes :
        /\ u # paths_out.node_id
        /\ u \in DOMAIN paths_out.res
        /\ Connected(graph, paths_out.node_id, v)
        /\ v \notin DOMAIN paths_out.res

\* ------------------------------------------ the path cache under long runs
\* Keys never used before are taken in the order of CacheKeyOrder (the cache
\* treats all keys alike); a key used before may be queried again at any time.
CacheGraph ==
    [nodes |-> DOMAIN PathCoords,
     weight |-> ({0, 1} :> _haversine_pair(PathCoords[0], PathCoords[1]))
                @@ ({1, 2} :> _haversine_pair(PathCoords[1], PathCoords[2]))]
CacheCutoffs == <<None, Some(0), Some(2 * StepM), Some(5 * StepM)>>
CacheKeyOrder == [i \in 1..12 |-> <<(i - 1) % 3, CacheCutoffs[((i - 1) \div 3) + 1]>>]
CachePoints == {PathCoords[i] : i \in DOMAIN PathCoords}

\* the keys used so far, each once, the most recently used one last
Touch(hist, key) == Append(SelectSeq(hist, LAMBDA k : k # key), key)

KeyAllowed(hist, key) ==
    \/ \E i \in 1..Len(hist) : hist[i] = key
    \/ (Len(hist) < Len(CacheKeyOrder) /\ CacheKeyOrder[Len(hist) + 1] = key)

InitCache ==
    /\ node_coords = PathCoords
    /\ snap_tolerance_m = RoadNetworkTolerance(ROAD_SNAP_TOLERANCE_M)
    /\ tie_pref = "low"
    /\ graph = CacheGraph
    /\ IdleSnap
    /\ IdlePaths
    /\ IdleThreads
    /\ IdleDisk
    /\ IdleLoad
    /\ IdleSvc

CachedShortestPathsFrom ==
    \E i \in DOMAIN CacheKeyOrder :
        LET node_id == CacheKeyOrder[i][1]
            cutoff == CacheKeyOrder[i][2]
            r == shortest_paths_from(graph, _paths_cache, node_id, cutoff)
        IN  /\ ncalls < MaxCacheCalls
            /\ KeyAllowed(recency, <<node_id, cutoff>>)
            /\ _paths_cache' = r.cache
            /\ paths_out' = [op |-> "shortest_paths_from", key |-> Some(<<node_id, cutoff>>),
                             hit |-> r.hit, full |-> Len(_paths_cache) = _paths_cache_size,
                             res |-> r.res]
            /\ recency' = Touch(recency, <<node_id, cutoff>>)
            /\ ncalls' = ncalls + 1
            /\ UNCHANGED <<netVars, snap_out, threads, diskVars, loadVars, svcVars>>

CachedDistanceBetween ==
    \E lat_a \in CachePoints, lat_b \in CachePoints :
        LET r == distance_between(node_coords, tie_pref, snap_tolerance_m, graph,
                                  _paths_cache, lat_a, lat_b, None)
            source == snap_point(node_coords, tie_pref, snap_tolerance_m, lat_a, None).node
            used == lat_a # lat_b
        IN  /\ ncalls < MaxCacheCalls
            /\ used => KeyAllowed(recency, <<Val(source), None>>)
            /\ _paths_cache' = r.cache
            /\ paths_out' = [op |-> "distance_between",
                             key |-> IF used THEN Some(<<Val(source), None>>) ELSE None,
                             hit |-> r.hit, full |-> Len(_paths_cache) = _paths_cache_size,
                             lat_a |-> lat_a, lat_b |-> lat_b, res |-> r.res]
            /\ recency' = IF used THEN Touch(recency, <<Val(source), None>>) ELSE recency
            /\ ncalls' = ncalls + 1
            /\ UNCHANGED <<netVars, snap_out, threads, diskVars, loadVars, svcVars>>

NextCache == CachedShortestPathsFrom \/ CachedDistanceBetween

SpecCache == InitCache /\ [][NextCache]_vars

\* ------------------------------------------------------------------ claim C6
CacheKeys(cache) == [i \in 1..Len(cache) |-> cache[i].key]
MostRecent(hist) ==
    IF Len(hist) <= _paths_cache_size THEN hist
    ELSE SubSeq(hist, Len(hist) - _paths_cache_size + 1, Len(hist))

\* C6: after any sequence of shortest_paths_from and distance_between calls
\* the path cache holds at most 8 entries, and they are exactly the most
\* recently used distinct (node, cutoff) keys, least recent first; the entry
\* just inserted or hit is held, at the most recent end.
C6_CacheIsLRU ==
    /\ Len(_paths_cache) <= _paths_cache_size
    /\ CacheKeys(_paths_cache) = MostRecent(recency)
    /\ (paths_out.op # "none" /\ paths_out.key # None) =>
            /\ Len(_paths_cache) > 0
            /\ _paths_cache[Len(_paths_cache)].key = Val(paths_out.key)

\* an insertion into the full cache evicted an entry while the entry inserted
\* first, hit in between, is still held
C6_Witness ==
    /\ paths_out.op = "distance_between"
    /\ paths_out.key # None
    /\ paths_out.full
    /\ ~paths_out.hit
    /\ Len(recency) > _paths_cache_size
    /\ \E i \in 1..Len(_paths_cache) : _paths_cache[i].key = CacheKeyOrder[1]

\* ------------------------------------- path queries from concurrent threads
\* Request handlers are plain functions, served from a thread pool, and share
\* one RoadNetwork.  A thread can be preempted between any two operations on
\* _paths_cache; each OrderedDict operation is atomic.  Queries made while no
\* other query is in progress (WarmCall) run as a whole.
WarmCall ==
    /\ \A t \in Threads : threads[t] = [at |-> "idle", calls |-> 0]
    /\ Len(recency) < Len(CacheKeyOrder)
    /\ Len(_paths_cache) < _paths_cache_size
    /\ LET key == CacheKeyOrder[Len(recency) + 1]
           r == shortest_paths_from(graph, _paths_cache, key[1], key[2])
       IN  /\ _paths_cache' = r.cache
           /\ recency' = Touch(recency, key)
    /\ UNCHANGED <<netVars, snap_out, paths_out, ncalls, threads, diskVars, loadVars, svcVars>>

\* shortest_paths_from up to and including self._paths_cache.get(key)
BeginShortestPaths(t) ==
    \E i \in DOMAIN CacheKeyOrder :
        LET key == CacheKeyOrder[i]
            j == CacheIndex(_paths_cache, key)
        IN  /\ threads[t].at \in {"idle", "returned"}
            /\ threads[t].calls < MaxThreadCalls
            /\ KeyAllowed(recency, key)
            /\ threads' = [threads EXCEPT ![t] =
                   [at |-> "looked_up", calls |-> threads[t].calls + 1,
                    op |-> "shortest_paths_from", key |-> key, target |-> None,
                    cached |-> IF j # 0 THEN Some(_paths_cache[j].val) ELSE None]]
            /\ recency' = Touch(recency, key)
            /\ UNCHANGED <<netVars, snap_out, _paths_cache, paths_out, ncalls, diskVars, loadVars, svcVars>>

\* distance_between up to and including self._paths_cache.get(cache_key);
\* both points lie on nodes, so both snap with offset 0
BeginDistanceBetween(t) ==
    \E lat_a \in CachePoints, lat_b \in CachePoints :
        LET source == snap_point(node_coords, tie_pref, snap_tolerance_m, lat_a, None)
            target == snap_point(node_coords, tie_pref, snap_tolerance_m, lat_b, None)
            key == <<Val(source.node), None>>
            j == CacheIndex(_paths_cache, key)
        IN  /\ threads[t].at \in {"idle", "returned"}
            /\ threads[t].calls < MaxThreadCalls
            /\ source.node # target.node
            /\ KeyAllowed(recency, key)
            /\ threads' = [threads EXCEPT ![t] =
                   [at |-> "looked_up", calls |-> threads[t].calls + 1,
                    op |-> "distance_between", key |-> key, target |-> target.node,
                    cached |-> IF j # 0 THEN Some(_paths_cache[j].val) ELSE None]]
            /\ recency' = Touch(recency, key)
            /\ UNCHANGED <<netVars, snap_out, _paths_cache, paths_out, ncalls, diskVars, loadVars, svcVars>>

\* what the call returns from the tree it holds
CallResult(th, lengths) ==
    IF th.op = "shortest_paths_from" THEN lengths
    ELSE IF Val(th.target) \in DOMAIN lengths THEN Some(lengths[Val(th.target)]) ELSE None

\* self._paths_cache.move_to_end(key) and the return: KeyError if the key
\* has been evicted since the lookup
HitMoveToEnd(t) ==
    LET th == threads[t]
        j == CacheIndex(_paths_cache, th.key)
    IN  /\ th.at = "looked_up"
        /\ th.cached # None
        /\ IF j = 0
           THEN /\ threads' = [threads EXCEPT ![t] =
                       [at |-> "raised", calls |-> th.calls, op |-> th.op, key |-> th.key,
                        exc |-> "KeyError"]]
                /\ UNCHANGED _paths_cache
           ELSE /\ _paths_cache' = MoveToEnd(_paths_cache, j)
                /\ threads' = [threads EXCEPT ![t] =
                       [at |-> "returned", calls |-> th.calls, op |-> th.op, key |-> th.key,
                        target |-> th.target, res |-> CallResult(th, Val(th.cached))]]
        /\ UNCHANGED <<netVars, snap_out, paths_out, ncalls, recency, diskVars, loadVars, svcVars>>

\* the search and self._paths_cache[key] = lengths: a key that another
\* thread has inserted meanwhile keeps its place and gets the new value
MissInsert(t) ==
    LET th == threads[t]
        lengths == single_source_dijkstra_path_length(graph, th.key[1], th.key[2])
        j == CacheIndex(_paths_cache, th.key)
    IN  /\ th.at = "looked_up"
        /\ th.cached = None
        /\ _paths_cache' =
               IF j # 0 THEN [_paths_cache EXCEPT ![j].val = lengths]
               ELSE Append(_paths_cache, [key |-> th.key, val |-> lengths])
        /\ threads' = [threads EXCEPT ![t] =
               [at |-> "inserted", calls |-> th.calls, op |-> th.op, key |-> th.key,
                target |-> th.target, lengths |-> lengths]]
        /\ UNCHANGED <<netVars, snap_out, paths_out, ncalls, recency, diskVars, loadVars, svcVars>>

\* if len(self._paths_cache) > self._paths_cache_size
CheckSize(t) ==
    LET th == threads[t] IN
    /\ th.at = "inserted"
    /\ threads' = [threads EXCEPT ![t] =
           IF Len(_paths_cache) > _paths_cache_size
           THEN [th EXCEPT !.at = "evicting"]
           ELSE [at |-> "returned", calls |-> th.calls, op |-> th.op, key |-> th.key,
                 target |-> th.target, res |-> CallResult(th, th.lengths)]]
    /\ UNCHANGED <<netVars, snap_out, pathVars, diskVars, loadVars, svcVars>>

\* self._paths_cache.popitem(last=False) and the return
Evict(t) ==
    LET th == threads[t] IN
    /\ th.at = "evicting"
    /\ IF Len(_paths_cache) = 0
       THEN /\ threads' = [threads EXCEPT ![t] =
                   [at |-> "raised", calls |-> th.calls, op |-> th.op, key |-> th.key,
                    exc |-> "KeyError"]]
            /\ UNCHANGED _paths_cache
       ELSE /\ _paths_cache' = Tail(_paths_cache)
            /\ threads' = [threads EXCEPT ![t] =
                   [at |-> "returned", calls |-> th.calls, op |-> th.op, key |-> th.key,
                    target |-> th.target, res |-> CallResult(th, th.lengths)]]
    /\ UNCHANGED <<netVars, snap_out, paths_out, ncalls, recency, diskVars, loadVars, svcVars>>

NextConc ==
    \/ WarmCall
    \/ \E t \in Threads : BeginShortestPaths(t)
    \/ \E t \in Threads : BeginDistanceBetween(t)
    \/ \E t \in Threads : HitMoveToEnd(t)
    \/ \E t \in Threads : MissInsert(t)
    \/ \E t \in Threads : CheckSize(t)
    \/ \E t \in Threads : Evict(t)

SpecConc == InitCache /\ [][NextConc]_vars

\* ------------------------------------------------------------------ claim C4
SingleThreaded(th) ==
    CallResult(th, single_source_dijkstra_path_length(graph, th.key[1], th.key[2]))

\* C4: when several threads call shortest_paths_from and distance_between on
\* one RoadNetwork, then under every interleaving of their cache steps each
\* call completes without raising and returns what a single-threaded call
\* returns.
C4_ThreadSafe ==
    \A t \in Threads :
        /\ threads[t].at # "raised"
        /\ threads[t].at = "returned" => threads[t].res = SingleThreaded(threads[t])

\* ------------------------------------------------ the on-disk graph cache
\* A cache file is [mtime, version, payload]: version is the schema_version
\* entry of the pickled dict (None if it has none), payload is "ok" (a dict
\* with graph and node_coords), "no_graph" (a dict without them) or
\* "corrupt" (bytes pickle.load rejects: a truncated or foreign file).
Variants == {"RoadNetwork", "RoadTypeNetwork"}
Payloads == {"ok", "no_graph", "corrupt"}
Versions == {None, Some(_CACHE_SCHEMA_VERSION), Some(_CACHE_SCHEMA_VERSION + 1)}

_cache_is_valid(file, src_mtime) == file # None /\ file.mtime >= src_mtime

\* _save_cache: only RoadTypeNetwork stores a schema_version
SavedFile(v, now) ==
    [mtime |-> now,
     version |-> IF v = "RoadTypeNetwork" THEN Some(_CACHE_SCHEMA_VERSION) ELSE None,
     payload |-> "ok"]

\* _load_cache: "loaded" or "raise"
_load_cache(v, file) ==
    IF file.payload = "corrupt" THEN "raise"
    ELSE IF v = "RoadTypeNetwork" /\ file.version # Some(_CACHE_SCHEMA_VERSION) THEN "raise"
    ELSE IF file.payload = "no_graph" THEN "raise"
    ELSE "loaded"

\* from_geojson with a cache path: RoadTypeNetwork wraps _load_cache in
\* try/except and falls through to the rebuild, RoadNetwork does not
from_geojson(v, file, src_mtime, now) ==
    IF _cache_is_valid(file, src_mtime)
    THEN IF _load_cache(v, file) = "loaded"
         THEN [outcome |-> "cache", file |-> file]
         ELSE IF v = "RoadTypeNetwork"
         THEN [outcome |-> "rebuilt", file |-> SavedFile(v, now)]
         ELSE [outcome |-> "raised", file |-> file]
    ELSE [outcome |-> "rebuilt", file |-> SavedFile(v, now)]

InitDisk ==
    /\ node_coords = <<>>
    /\ snap_tolerance_m = RoadNetworkTolerance(ROAD_SNAP_TOLERANCE_M)
    /\ tie_pref = "low"
    /\ graph = NoGraph
    /\ IdleSnap
    /\ IdlePaths
    /\ IdleThreads
    /\ IdleLoad
    /\ IdleSvc
    /\ variant \in Variants
    /\ clock = 1
    /\ source_mtime = 1
    /\ cache_file = None
    /\ load_out = [op |-> "none"]

Tick ==
    /\ clock < MaxClock
    /\ clock' = clock + 1
    /\ UNCHANGED <<netVars, snap_out, pathVars, threads, variant, source_mtime, cache_file,
                   load_out, loadVars, svcVars>>

\* Roadway.geojson is replaced or edited
TouchSource ==
    /\ source_mtime # clock
    /\ source_mtime' = clock
    /\ UNCHANGED <<netVars, snap_out, pathVars, threads, variant, clock, cache_file, load_out,
                 loadVars, svcVars>>

\* the cache file is left by something else than a completed _save_cache of
\* this code: a write cut short, another release of the code, a copied file
ForeignCacheFile ==
    \E ver \in Versions, pl \in Payloads :
        /\ cache_file' = [mtime |-> clock, version |-> ver, payload |-> pl]
        /\ UNCHANGED <<netVars, snap_out, pathVars, threads, variant, clock, source_mtime,
                       load_out, loadVars, svcVars>>

FromGeojson ==
    LET r == from_geojson(variant, cache_file, source_mtime, clock) IN
    /\ cache_file' = r.file
    /\ load_out' = [op |-> "from_geojson", outcome |-> r.outcome,
                    file_before |-> cache_file, wrote |-> r.outcome = "rebuilt"]
    /\ UNCHANGED <<netVars, snap_out, pathVars, threads, variant, clock, source_mtime, loadVars, svcVars>>

NextDisk == Tick \/ TouchSource \/ ForeignCacheFile \/ FromGeojson

SpecDisk == InitDisk /\ [][NextDisk]_vars

\* ------------------------------------------------------------ claims C7, C8
\* the schema version a cache written by the class itself carries
CurrentVersion(v) == SavedFile(v, 0).version

LastLoad == load_out.op = "from_geojson"
MtimeOkBefore ==
    load_out.file_before # None /\ load_out.file_before.mtime >= source_mtime

\* C7: for both variants from_geojson uses the on-disk cache only if its
\* modification time is >= the source's and its embedded schema version
\* equals the current one; in every other case the graph is rebuilt from the
\* source and the cache file is overwritten.
C7_CacheValidity ==
    LastLoad =>
        LET usable == MtimeOkBefore /\ load_out.file_before.version = CurrentVersion(variant)
        IN  /\ load_out.outcome = "cache" => usable
            /\ ~usable => (load_out.outcome = "rebuilt" /\ load_out.wrote
                            /\ cache_file = SavedFile(variant, clock))

\* C8: for both variants, a cache file that passes the modification-time
\* check but is corrupt, unreadable or malformed is a cache miss: from_geojson
\* does not raise, it rebuilds the graph from the source and returns it.
C8_CorruptIsMiss ==
    (LastLoad /\ MtimeOkBefore /\ load_out.file_before.payload # "ok") =>
        load_out.outcome = "rebuilt"

\* --------------------------------------------- the lru_cache around the load
\* _get_road_network (pois.py) is a module function memoised on the empty
\* argument tuple; SiteAnalysisService.get_road_network is a method memoised
\* on self, and every request builds its own SiteAnalysisService.
Guards == {"module", "method"}
CallKey(g, t) == IF g = "module" THEN 0 ELSE t

\* functools.lru_cache(maxsize=1), lookup: the stored value on a hit
LruHit(slot, key) == slot # None /\ Val(slot).key = key

\* functools.lru_cache(maxsize=1), after the wrapped call returned: an entry
\* another caller stored for the key meanwhile is left alone, else the new
\* entry takes the only slot
LruStore(slot, key, val) ==
    IF LruHit(slot, key) THEN slot ELSE Some([key |-> key, val |-> val])

\* a thread here is [at, key, result, rets]: result is the object its own
\* from_geojson produced (<<t, n>>: made by thread t in its n-th call) or
\* "None" after the except branch, rets the values it returned so far
IdleLoader == [at |-> "idle", key |-> 0, result |-> "None", rets |-> <<>>]

InitLoad ==
    /\ node_coords = <<>>
    /\ snap_tolerance_m = RoadNetworkTolerance(ROAD_SNAP_TOLERANCE_M)
    /\ tie_pref = "low"
    /\ graph = NoGraph
    /\ IdleSnap
    /\ IdlePaths
    /\ threads = [t \in Threads |-> IdleLoader]
    /\ variant = "RoadNetwork"
    /\ clock = 1
    /\ source_mtime = 1
    /\ cache_file \in {None, SavedFile("RoadNetwork", 1)}
    /\ load_out = [op |-> "none"]
    /\ guard \in Guards
    /\ lru_slot = None
    /\ nbuilds = 0
    /\ nwrites = 0
    /\ IdleSvc

LoadFrame == UNCHANGED <<netVars, snap_out, pathVars, variant, clock, source_mtime, load_out,
                         guard, svcVars>>

\* the wrapper is entered: a hit returns the stored value at once
CallGetRoadNetwork(t) ==
    LET th == threads[t]
        key == CallKey(guard, t) IN
    /\ th.at \in {"idle", "returned"}
    /\ Len(th.rets) < MaxThreadCalls
    /\ IF LruHit(lru_slot, key)
       THEN threads' = [threads EXCEPT ![t] =
                [th EXCEPT !.at = "returned", !.key = key,
                           !.rets = Append(@, Val(lru_slot).val)]]
       ELSE threads' = [threads EXCEPT ![t] = [th EXCEPT !.at = "check", !.key = key]]
    /\ UNCHANGED <<cache_file, lru_slot, nbuilds, nwrites>>
    /\ LoadFrame

\* from_geojson: _cache_is_valid
CheckCacheValid(t) ==
    LET th == threads[t] IN
    /\ th.at = "check"
    /\ threads' = [threads EXCEPT ![t] =
            [th EXCEPT !.at = IF _cache_is_valid(cache_file, source_mtime)
                              THEN "load" ELSE "build"]]
    /\ UNCHANGED <<cache_file, lru_slot, nbuilds, nwrites>>
    /\ LoadFrame

\* from_geojson: _load_cache; what it raises ends in the loader's except
\* branch, which returns None
LoadCacheFile(t) ==
    LET th == threads[t]
        ok == cache_file # None /\ _load_cache(variant, cache_file) = "loaded" IN
    /\ th.at = "load"
    /\ threads' = [threads EXCEPT ![t] =
            [th EXCEPT !.at = "store",
                       !.result = IF ok THEN <<t, Len(th.rets) + 1>> ELSE "None"]]
    /\ UNCHANGED <<cache_file, lru_slot, nbuilds, nwrites>>
    /\ LoadFrame

\* from_geojson: the GeoJSON is parsed and the graph is built
BuildGraph(t) ==
    LET th == threads[t] IN
    /\ th.at = "build"
    /\ nbuilds' = nbuilds + 1
    /\ threads' = [threads EXCEPT ![t] =
            [th EXCEPT !.at = "save", !.result = <<t, Len(th.rets) + 1>>]]
    /\ UNCHANGED <<cache_file, lru_slot, nwrites>>
    /\ LoadFrame

\* _save_cache: open(path, "wb") truncates the file in place
OpenCacheForWrite(t) ==
    LET th == threads[t] IN
    /\ th.at = "save"
    /\ cache_file' = [SavedFile(variant, clock) EXCEPT !.payload = "corrupt"]
    /\ threads' = [threads EXCEPT ![t] = [th EXCEPT !.at = "writing"]]
    /\ UNCHANGED <<lru_slot, nbuilds, nwrites>>
    /\ LoadFrame

\* _save_cache: pickle.dump has written everything and the file is closed
FinishCacheWrite(t) ==
    LET th == threads[t] IN
    /\ th.at = "writing"
    /\ cache_file' = SavedFile(variant, clock)
    /\ nwrites' = nwrites + 1
    /\ threads' = [threads EXCEPT ![t] = [th EXCEPT !.at = "store"]]
    /\ UNCHANGED <<lru_slot, nbuilds>>
    /\ LoadFrame

\* back in the wrapper: the result is memoised and returned
StoreAndReturn(t) ==
    LET th == threads[t] IN
    /\ th.at = "store"
    /\ lru_slot' = LruStore(lru_slot, th.key, th.result)
    /\ threads' = [threads EXCEPT ![t] =
            [th EXCEPT !.at = "returned", !.rets = Append(@, th.result)]]
    /\ UNCHANGED <<cache_file, nbuilds, nwrites>>
    /\ LoadFrame

NextLoad ==
    \E t \in Threads :
        \/ CallGetRoadNetwork(t)
        \/ CheckCacheValid(t)
        \/ LoadCacheFile(t)
        \/ BuildGraph(t)
        \/ OpenCacheForWrite(t)
        \/ FinishCacheWrite(t)
        \/ StoreAndReturn(t)

SpecLoad == InitLoad /\ [][NextLoad]_vars

\* ------------------------------------------------------------------ claim C5
\* C5: when several callers ask for the road graph concurrently for the first
\* time, at most one of them parses the GeoJSON and builds the graph, at most
\* one writes the cache file, and all of them receive the same instance.
C5_BuildOnce ==
    /\ nbuilds <= 1
    /\ nwrites <= 1
    /\ \A t, u \in Threads :
          (threads[t].rets # <<>> /\ threads[u].rets # <<>>) =>
              threads[t].rets[1] = threads[u].rets[1]

\* ------------------------------------------- SiteAnalysisService: the rings
\* Distances are kept in metres here as everywhere else: a radius of 0.2 km
\* is 200, and total_m / 1000.0 compared with a radius in km is total_m
\* compared with the radius in metres.  A POI table is a sequence of
\* latitudes, None for a row without coordinates; the position of a row is its
\* DataFrame index.
Categories == {"cafes", "banks"}
POI_FILES == <<"cafes", "banks">>
SortBy == {"auto", "haversine", "network"}
DefaultRadius == 1000

RECURSIVE SortedSeq(_)
SortedSeq(S) == IF S = {} THEN <<>> ELSE <<SetMin(S)>> \o SortedSeq(S \ {SetMin(S)})

SeqRange(q) == {q[i] : i \in DOMAIN q}

\* the three-step snapping of the POIs: 120 m, then 300 m, then unlimited,
\* a later step only filling the entries the earlier ones left unsnapped
SnapFailed(r, i) == r.nodes[i] = None \/ r.offsets[i] >= Inf
\* a plausible slip: the refill test is inverted, so no failed entry is filled
SnapFill_never(first, again) == first
SnapFill(first, again) ==
    IF \E i \in DOMAIN first.nodes : SnapFailed(first, i)
    THEN [nodes |-> [i \in DOMAIN first.nodes |->
                        IF SnapFailed(first, i) /\ ~SnapFailed(again, i)
                        THEN again.nodes[i] ELSE first.nodes[i]],
          offsets |-> [i \in DOMAIN first.nodes |->
                        IF SnapFailed(first, i) /\ ~SnapFailed(again, i)
                        THEN again.offsets[i] ELSE first.offsets[i]]]
    ELSE first

\* the same three steps for the centre
SnapCenter(coords, tie, tol, lat) ==
    LET a == snap_point(coords, tie, tol, lat, Some(ROAD_SNAP_TOLERANCE_M))
        b == snap_point(coords, tie, tol, lat, Some(SECONDARY_SNAP_TOLERANCE_M))
        c == snap_point(coords, tie, tol, lat, Some(Inf))
    IN  IF a.node # None THEN a ELSE IF b.node # None THEN b ELSE c

\* the snapped batch after each of the three passes: the tolerance of the
\* service, the secondary tolerance, any distance
\* a plausible slip: the last pass repeats the secondary tolerance
SnapTiers_bounded == <<ROAD_SNAP_TOLERANCE_M, SECONDARY_SNAP_TOLERANCE_M, SECONDARY_SNAP_TOLERANCE_M>>
SnapTiers == <<ROAD_SNAP_TOLERANCE_M, SECONDARY_SNAP_TOLERANCE_M, Inf>>
TieredSnapStages(coords, tie, tol, lats) ==
    LET p1 == snap_points(coords, tie, tol, lats, Some(SnapTiers[1]))
        p2 == SnapFill(p1, snap_points(coords, tie, tol, lats, Some(SnapTiers[2])))
    IN  <<p1, p2, SnapFill(p2, snap_points(coords, tie, tol, lats, Some(SnapTiers[3])))>>
TieredSnapPoints(coords, tie, tol, lats) == TieredSnapStages(coords, tie, tol, lats)[3]

\* a plausible slip: the result is keyed by the position in the batch
ResultKey_position(idx_list, i) == i

\* the key of a result: the DataFrame index of the POI at position i
ResultKey(idx_list, i) == idx_list[i]

\* _network_distance_map: [cache, res], res maps the DataFrame index of a POI
\* to its road distance when that is within radius_m
_network_distance_map(coords, tie, tol, g, cache, center_lat, idx_list, poi_lats, radius_m) ==
    LET center == SnapCenter(coords, tie, tol, center_lat)
        results(sp, poi) ==
            LET snapped == {i \in DOMAIN poi_lats : ~SnapFailed(poi, i)}
                total(i) == sp.res[Val(poi.nodes[i])] + OrZero(center.offset) + poi.offsets[i]
                within == {i \in snapped :
                              Val(poi.nodes[i]) \in DOMAIN sp.res /\ total(i) <= radius_m}
                last(k) == SetMax({i \in within : ResultKey(idx_list, i) = k})
            IN  [cache |-> sp.cache,
                 res |-> [k \in {ResultKey(idx_list, i) : i \in within} |-> total(last(k))]]
        snapped_any(poi) == \E i \in DOMAIN poi_lats : ~SnapFailed(poi, i)
    IN  IF center.node = None THEN [cache |-> cache, res |-> EmptyDict]
        ELSE CHOOSE out \in
                 {IF ~snapped_any(poi) THEN [cache |-> cache, res |-> EmptyDict]
                  ELSE CHOOSE r \in
                           {results(sp, poi) :
                               sp \in {shortest_paths_from(g, cache, Val(center.node),
                                                           Some(radius_m))}} : TRUE :
                     poi \in {TieredSnapPoints(coords, tie, tol, poi_lats)}} : TRUE

\* ring_summary, first loop: per category the rows within the largest radius
\* as the crow flies, and their road distances; the categories share the
\* network's path cache, so the loop hands it from one to the next
RECURSIVE PerCatPoints(_, _, _, _, _, _, _, _, _, _)
PerCatPoints(coords, tie, tol, g, cache, df, lat, cats, max_radius_m, use_net) ==
    IF cats = <<>> THEN [cache |-> cache, points |-> EmptyDict]
    ELSE LET cat == Head(cats)
             rows == IF cat \in DOMAIN df THEN df[cat] ELSE <<>>
             hav(i) == _haversine_pair(lat, Val(rows[i]))
             idx_list == SortedSeq({i \in DOMAIN rows :
                                       rows[i] # None /\ hav(i) <= max_radius_m})
             lats == [i \in DOMAIN idx_list |-> rows[idx_list[i]]]
             per_cat(nm, rest) ==
                 IF idx_list = <<>> THEN rest
                 ELSE [cache |-> rest.cache,
                       points |-> (cat :> [df |-> [k \in SeqRange(idx_list) |-> hav(k)],
                                           net |-> nm.res]) @@ rest.points]
             others(nm) ==
                 CHOOSE out \in
                     {per_cat(nm, rest) :
                         rest \in {PerCatPoints(coords, tie, tol, g, nm.cache, df, lat,
                                                Tail(cats), max_radius_m, use_net)}} : TRUE
         IN  CHOOSE out \in
                 {others(nm) :
                     nm \in {IF use_net /\ idx_list # <<>>
                             THEN _network_distance_map(coords, tie, tol, g, cache, lat,
                                                        idx_list, lats, max_radius_m)
                             ELSE [cache |-> cache, res |-> EmptyDict]}} : TRUE

\* ------------------------------------------------------------------ _weight
\* weights are in thousandths (WeightUnit to 1.0), distances and scales in
\* metres; math.exp(-d / k) is taken to the second order, 1 / (1 + x + x^2 / 2)
\* for x = d / k, which like the exponential is 1 at 0, positive and decreasing
ExpNeg(d, k) == (WeightUnit * 2 * k * k) \div (2 * k * k + 2 * k * d + d * d)

\* a plausible slip: the base weight is not held at 0 from below
BaseWeight_unclamped(d, r) == WeightUnit - (d * WeightUnit) \div r

\* max(0.0, 1.0 - distance_km / radius_km)
BaseWeight(d, r) == MaxOf(0, WeightUnit - (d * WeightUnit) \div r)

_weight(distance_km, radius_km, decay_scale_km) ==
    IF radius_km <= 0 THEN 0
    ELSE IF decay_scale_km <= 0 THEN BaseWeight(distance_km, radius_km)
    ELSE (BaseWeight(distance_km, radius_km) * ExpNeg(distance_km, decay_scale_km))
             \div WeightUnit

\* the distance a POI is judged by
chosen_km(payload, k, sort_by) ==
    IF sort_by = "haversine" THEN payload.df[k]
    ELSE IF k \in DOMAIN payload.net THEN payload.net[k] ELSE payload.df[k]

\* a plausible slip: the comparison with the radius the wrong way round
RingItems_outside(payload, r, sort_by) ==
    {k \in DOMAIN payload.df : chosen_km(payload, k, sort_by) >= r}

\* the rows of one category that fall into the ring of radius r
RingItems(payload, r, sort_by) ==
    {k \in DOMAIN payload.df : chosen_km(payload, k, sort_by) <= r}

RECURSIVE SumOf(_)
SumOf(f) ==
    IF DOMAIN f = {} THEN 0
    ELSE LET c == CHOOSE x \in DOMAIN f : TRUE
         IN  f[c] + SumOf([x \in DOMAIN f \ {c} |-> f[x]])

\* ring_summary, second loop: one ring; a category without a row in it is
\* not listed
Ring(points, r, sort_by, decay_scale_km) ==
    LET listed == {cat \in DOMAIN points : RingItems(points[cat], r, sort_by) # {}}
        items(cat) == [k \in RingItems(points[cat], r, sort_by) |->
                          chosen_km(points[cat], k, sort_by)]
        count(cat) == Cardinality(RingItems(points[cat], r, sort_by))
    IN  [radius_km |-> r,
         categories |-> [cat \in listed |->
            [count |-> count(cat),
             sum_weight |-> SumOf([k \in DOMAIN items(cat) |->
                                      _weight(items(cat)[k], r, decay_scale_km)]),
             avg_distance_km |-> SumOf(items(cat)) \div count(cat),
             min_distance_km |-> SetMin({items(cat)[k] : k \in DOMAIN items(cat)})]],
         totals |-> [total_poi_count |-> SumOf([cat \in listed |-> count(cat)]),
                     total_weight |-> SumOf([cat \in listed |->
                         SumOf([k \in DOMAIN items(cat) |->
                                   _weight(items(cat)[k], r, decay_scale_km)])])]]

\* ring_summary; road_net is None when the service has no road graph
ring_summary(coords, tie, tol, g, cache, df, lat, radii_km, categories, decay_scale_km, include_network, sort_by) ==
    LET positive == {r \in SeqRange(radii_km) : r > 0}
        radii == IF positive = {} THEN <<DefaultRadius>> ELSE SortedSeq(positive)
        cats == IF categories # <<>> THEN categories ELSE POI_FILES
        use_net == include_network /\ g # NoGraph
    IN  CHOOSE out \in
            {[cache |-> pc.cache,
              rings |-> [i \in DOMAIN radii |->
                           Ring(pc.points, radii[i], sort_by, decay_scale_km)]] :
                pc \in {PerCatPoints(coords, tie, tol, g, cache, df, lat, cats,
                                     SetMax(SeqRange(radii)), use_net)}} : TRUE

RingGraphs(coords) ==
    {NoGraph,
     [nodes |-> DOMAIN coords,
      weight |-> [e \in {{0, 1}, {1, 2}} |->
                     _haversine_pair(coords[SetMin(e)], coords[SetMax(e)])]],
     [nodes |-> DOMAIN coords,
      weight |-> [e \in {{1, 2}, {0, 2}} |->
                     _haversine_pair(coords[SetMin(e)], coords[SetMax(e)])]]}
PoiLats == {None, Some(0), Some(3 * StepM)}
PoiRows == UNION {[1..n -> PoiLats] : n \in 1..MaxPois}
PoiTables == {("cafes" :> a) @@ ("banks" :> b) : a \in PoiRows, b \in {<<>>, <<Some(4 * StepM)>>}}
RadiiArgs == {<<>>, <<4 * StepM>>, <<6 * StepM, 2 * StepM>>, <<0, 4 * StepM, 6 * StepM>>}
CategoryArgs == {<<>>, <<"cafes", "parks">>}
CenterArgs == {0, StepM}
RingDecayArgs == {0, 3 * StepM}

InitRing ==
    /\ node_coords = PathCoords
    /\ snap_tolerance_m = RoadNetworkTolerance(ROAD_SNAP_TOLERANCE_M)
    /\ tie_pref = "low"
    /\ graph \in RingGraphs(PathCoords)
    /\ IdleSnap
    /\ IdlePaths
    /\ IdleThreads
    /\ IdleDisk
    /\ IdleLoad
    /\ poi_df \in PoiTables
    /\ ring_out = [op |-> "none"]
    /\ rt_out = [op |-> "none"]
    /\ IdleMore

RingSummary ==
    /\ ncalls < MaxRingCalls
    /\ \E lat \in CenterArgs, radii_km \in RadiiArgs, categories \in CategoryArgs,
          decay_scale_km \in RingDecayArgs, include_network \in BOOLEAN, sort_by \in SortBy :
        \E r \in {ring_summary(node_coords, tie_pref, snap_tolerance_m, graph, _paths_cache,
                               poi_df, lat, radii_km, categories, decay_scale_km,
                               include_network, sort_by)} :
            /\ ncalls' = ncalls + 1
            /\ _paths_cache' = r.cache
            /\ ring_out' = [op |-> "ring_summary", lat |-> lat, radii_km |-> radii_km,
                            categories |-> categories, decay_scale_km |-> decay_scale_km,
                            include_network |-> include_network,
                            sort_by |-> sort_by, rings |-> r.rings]
            /\ UNCHANGED <<netVars, snap_out, paths_out, recency, threads, diskVars, loadVars,
                           poi_df, rt_out, moreVars>>

NextRing == RingSummary

SpecRing == InitRing /\ [][NextRing]_vars

\* ------------------------------------------------------------------ claim C9
CountIn(ring, cat) ==
    IF cat \in DOMAIN ring.categories THEN ring.categories[cat].count ELSE 0

\* C9: within one ring_summary result, for every category and every two
\* radii r1 < r2 of the result, the count of the category in the ring of r1
\* is at most its count in the ring of r2 (0 where the category is absent).
C9_RingCountsMonotone ==
    ring_out.op = "ring_summary" =>
        \A i, j \in DOMAIN ring_out.rings : \A cat \in Categories :
            ring_out.rings[i].radius_km < ring_out.rings[j].radius_km =>
                CountIn(ring_out.rings[i], cat) <= CountIn(ring_out.rings[j], cat)

\* two rings of one result where a category is absent from the smaller ring
\* and present in the larger, the POI being judged by a road distance that
\* is longer than the straight line
C9_Witness ==
    /\ ring_out.op = "ring_summary"
    /\ ring_out.sort_by = "auto"
    /\ \E i, j \in DOMAIN ring_out.rings :
          /\ ring_out.rings[i].radius_km < ring_out.rings[j].radius_km
          /\ CountIn(ring_out.rings[i], "cafes") = 0
          /\ CountIn(ring_out.rings[j], "cafes") > 0
          /\ ring_out.rings[j].categories["cafes"].min_distance_km
                > SetMax({_haversine_pair(c, Val(poi_df["cafes"][k])) :
                            c \in CenterArgs,
                            k \in {n \in DOMAIN poi_df["cafes"] : poi_df["cafes"][n] # None}}
                         \cup {0})

\* --------------------------------------------------- the road-type network
\* ROAD_TYPE_WEIGHTS in tenths (1.4 is 14); a type the table does not list
\* counts 1.0.  Weighted lengths are therefore in tenths of a metre, which is
\* also the grid round(dist_m / 1000.0, 4) puts a distance in km on.
RoadTypes == {"primary", "residential", "footway"}
ROAD_TYPE_WEIGHTS(road_type) ==
    CASE road_type = "primary" -> 14
      [] road_type = "residential" -> 10
      [] road_type = "footway" -> 7
      [] OTHER -> 10

EmptyNetwork ==
    [coords |-> <<>>, nodes |-> {}, weight |-> <<>>, road_type |-> <<>>, road_types |-> <<>>]

\* _get_or_create_node: [net, id]; ids are handed out in order of appearance
_get_or_create_node(net, lat) ==
    IF \E i \in DOMAIN net.coords : net.coords[i] = lat
    THEN [net |-> net, id |-> CHOOSE i \in DOMAIN net.coords : net.coords[i] = lat]
    ELSE LET node_id == Cardinality(DOMAIN net.coords)
         IN  [net |-> [net EXCEPT !.coords = @ @@ (node_id :> lat),
                                  !.nodes = @ \cup {node_id},
                                  !.road_types = @ @@ (node_id :> {})],
              id |-> node_id]

\* _add_line_to_graph: every node of the line is tagged with the line's road
\* type; an edge is added between consecutive distinct nodes unless they are
\* closer than half a metre, and it replaces an existing edge only if shorter
RECURSIVE _add_line_to_graph(_, _, _, _)
_add_line_to_graph(net, coords, road_type, prev_node) ==
    IF coords = <<>> THEN net
    ELSE IF Head(coords) = None
    THEN _add_line_to_graph(net, Tail(coords), road_type, prev_node)
    ELSE LET got == _get_or_create_node(net, Val(Head(coords)))
             node_id == got.id
             tagged == [got.net EXCEPT !.road_types[node_id] = @ \cup {road_type}]
             e == {Val(prev_node), node_id}
             dist == _haversine_pair(tagged.coords[Val(prev_node)], Val(Head(coords)))
             with_edge ==
                 IF prev_node = None \/ Val(prev_node) = node_id THEN tagged
                 ELSE IF 2 * dist < 1 THEN tagged
                 ELSE IF e \notin DOMAIN tagged.weight
                 THEN [tagged EXCEPT !.weight = @ @@ (e :> dist),
                                     !.road_type = @ @@ (e :> road_type)]
                 ELSE IF dist < tagged.weight[e]
                 THEN [tagged EXCEPT !.weight[e] = dist, !.road_type[e] = road_type]
                 ELSE tagged
         IN  _add_line_to_graph(with_edge, Tail(coords), road_type, Some(node_id))

\* _build_graph_from_geojson over the features' lines, in file order
RECURSIVE _build_graph_from_geojson(_, _)
_build_graph_from_geojson(net, lines) ==
    IF lines = <<>> THEN net
    ELSE _build_graph_from_geojson(
             _add_line_to_graph(net, Head(lines).coords, Head(lines).road_type, None),
             Tail(lines))

road_types_for_node(g, node_id) ==
    IF node_id \in DOMAIN g.road_types THEN g.road_types[node_id] ELSE {}

\* the graph as the weighted search sees it: edge_weight = base * factor
WeightedGraph(g) ==
    [nodes |-> g.nodes,
     weight |-> [e \in DOMAIN g.weight |-> g.weight[e] * ROAD_TYPE_WEIGHTS(g.road_type[e])]]

\* road_type_distance_map: None if the centre cannot be snapped; distances
\* and offsets in tenths of a metre
road_type_distance_map(coords, tie, tol, g, center_lat, radius_m) ==
    LET center == SnapCenter(coords, tie, tol, center_lat)
        distance_map(lengths) ==
            LET offset_m == 10 * OrZero(center.offset)
                types == UNION {road_types_for_node(g, n) : n \in DOMAIN lengths}
                best(t) == SetMin({lengths[n] + offset_m :
                                      n \in {m \in DOMAIN lengths :
                                                t \in road_types_for_node(g, m)}})
            IN  Some([node_id |-> Val(center.node),
                      snap_distance_m |-> offset_m,
                      start_types |-> road_types_for_node(g, Val(center.node)),
                      distances |-> [t \in types |-> best(t)],
                      points |-> [t \in types |->
                                     CHOOSE n \in DOMAIN lengths :
                                         /\ t \in road_types_for_node(g, n)
                                         /\ lengths[n] + offset_m = best(t)]])
    IN  IF center.node = None THEN None
        ELSE CHOOSE out \in
                 {distance_map(lengths) :
                     lengths \in {single_source_dijkstra_path_length(
                                      WeightedGraph(g), Val(center.node),
                                      Some(10 * radius_m))}} : TRUE
\* ------------------------------------------------ GET /road-types endpoint
\* a plausible slip: the start node's own road types are not left out
ReachableTypes_all(distances, start_types) == DOMAIN distances

\* the loop over distances.items() with its "in start_types: continue"
ReachableTypes(distances, start_types) == DOMAIN distances \ start_types

\* reachable.sort(key=distance_km): ascending distance; which of two entries
\* at the same distance comes first is left to CHOOSE
\* decayed_weight = weight * math.exp(-distance_km / decay_scale_km), in
\* thousandths of a tenth
RECURSIVE SortByDistance(_, _, _)
SortByDistance(distances, types, decay_scale_km) ==
    IF types = {} THEN <<>>
    ELSE LET t == CHOOSE x \in types : \A y \in types : distances[x] <= distances[y]
         IN  <<[road_type |-> t, distance_km |-> distances[t],
                weight |-> ROAD_TYPE_WEIGHTS(t),
                decayed_weight |-> ROAD_TYPE_WEIGHTS(t) * ExpNeg(distances[t], decay_scale_km)]>>
             \o SortByDistance(distances, types \ {t}, decay_scale_km)

\* get_road_types: the caller's decay_scale_km is replaced by the radius
\* before anything is computed from it
get_road_types(coords, tie, tol, g, lat, radius_km, decay_scale_km) ==
    LET response(result) ==
            IF result = None THEN [status |-> 400]
            ELSE [status |-> 200,
                  radius_km |-> radius_km,
                  decay_scale_km |-> radius_km,
                  snap |-> [node_id |-> Val(result).node_id,
                            snap_distance_m |-> Val(result).snap_distance_m,
                            road_types |-> Val(result).start_types],
                  reachable |-> SortByDistance(Val(result).distances,
                                    ReachableTypes(Val(result).distances,
                                                   Val(result).start_types),
                                    radius_km)]
    IN  CHOOSE out \in
            {response(result) :
                result \in {road_type_distance_map(coords, tie, tol, g, lat, radius_km)}} : TRUE

LineCoords == {<<Some(a), Some(b)>> : a, b \in {0, StepM, 3 * StepM}}
                  \cup {<<Some(0), None, Some(StepM), Some(3 * StepM)>>}
LineChoices == {[coords |-> c, road_type |-> t] : c \in LineCoords, t \in RoadTypes}
LineLists == UNION {[1..n -> LineChoices] : n \in 0..MaxLines}
RadiusArgs == {StepM, 4 * StepM}
DecayArgs == {3 * StepM}

InitRoadTypes ==
    /\ \E lines \in LineLists :
          \E net \in {_build_graph_from_geojson(EmptyNetwork, lines)} :
              /\ node_coords = net.coords
              /\ graph = [nodes |-> net.nodes, weight |-> net.weight,
                          road_type |-> net.road_type, road_types |-> net.road_types]
    /\ snap_tolerance_m = RoadNetworkTolerance(ROAD_SNAP_TOLERANCE_M)
    /\ tie_pref \in {"low", "high"}
    /\ IdleSnap
    /\ IdlePaths
    /\ IdleThreads
    /\ IdleLoad
    /\ variant = "RoadTypeNetwork"
    /\ clock = 1
    /\ source_mtime = 1
    /\ cache_file = None
    /\ load_out = [op |-> "none"]
    /\ IdleSvc

GetRoadTypes ==
    \E lat \in Points, radius_km \in RadiusArgs, decay_scale_km \in DecayArgs :
        /\ rt_out' = [op |-> "get_road_types", lat |-> lat, radius_km |-> radius_km,
                      decay_scale_km |-> decay_scale_km,
                      response |-> get_road_types(node_coords, tie_pref, snap_tolerance_m,
                                                  graph, lat, radius_km, decay_scale_km)]
        /\ UNCHANGED <<netVars, snap_out, pathVars, threads, diskVars, loadVars, poi_df,
                       ring_out, moreVars>>

\* the library call on its own, as PredictionService and the tests make it
RoadTypeDistanceMap ==
    \E lat \in Points, radius_m \in RadiusArgs :
        /\ rt_out' = [op |-> "road_type_distance_map", lat |-> lat, radius_m |-> radius_m,
                      result |-> road_type_distance_map(node_coords, tie_pref,
                                     snap_tolerance_m, graph, lat, radius_m)]
        /\ UNCHANGED <<netVars, snap_out, pathVars, threads, diskVars, loadVars, poi_df,
                       ring_out, moreVars>>

NextRoadTypes == GetRoadTypes \/ RoadTypeDistanceMap

SpecRoadTypes == InitRoadTypes /\ [][NextRoadTypes]_vars

\* ----------------------------------------------------------------- claim C10
RoadTypesAnswered == rt_out.op = "get_road_types" /\ rt_out.response.status = 200

\* C10: the reachable list of the road-type accessibility response never
\* holds a road type that is among the road types of the snapped start node,
\* also when other nodes tagged with that type are reached farther away.
C10_StartTypesExcluded ==
    RoadTypesAnswered =>
        \A i \in DOMAIN rt_out.response.reachable :
            rt_out.response.reachable[i].road_type
                \notin road_types_for_node(graph, rt_out.response.snap.node_id)

\* an answered request whose start node carries a road type that another node
\* within the weighted radius carries too, with other types listed as
\* reachable
C10_Witness ==
    /\ RoadTypesAnswered
    /\ rt_out.response.reachable # <<>>
    /\ \E n \in graph.nodes \ {rt_out.response.snap.node_id} :
          /\ n \in DOMAIN single_source_dijkstra_path_length(
                       WeightedGraph(graph), rt_out.response.snap.node_id,
                       Some(10 * rt_out.response.radius_km))
          /\ road_types_for_node(graph, n)
                \cap road_types_for_node(graph, rt_out.response.snap.node_id) # {}

\* ----------------------------------------------------------------- claim C11
\* C11: the distances and points maps that road_type_distance_map returns
\* hold no road type that is present at the snapped start node.
C11_MapExcludesStartTypes ==
    (rt_out.op = "road_type_distance_map" /\ rt_out.result # None) =>
        /\ DOMAIN Val(rt_out.result).distances \cap Val(rt_out.result).start_types = {}
        /\ DOMAIN Val(rt_out.result).points \cap Val(rt_out.result).start_types = {}

\* ------------------------------------------------ RoadNetwork: the builder
\* The builder is written for any length unit: per_m is the number of model
\* units in a metre (1 where positions are whole metres, 1000 where they are
\* millimetres).  One millionth of a degree of latitude is 111 mm, so
\* round(lat, 6) is the nearest multiple of 111 mm; on the whole-metre grid
\* two different positions never round to the same value and the position
\* itself serves as the key.
MmPerMicroDegree == 111

\* a plausible slip: the coordinate itself is the lookup key
round6_raw(lat, per_m) == lat

round6(lat, per_m) ==
    LET grid == (MmPerMicroDegree * per_m) \div 1000
    IN  IF grid = 0 THEN lat ELSE ((2 * lat + grid) \div (2 * grid)) * grid

\* a network under construction: coords is node_coords, lookup is
\* node_lookup, log the vertices read so far with the node id each received
NewNetwork == [coords |-> <<>>, lookup |-> <<>>, nodes |-> {}, weight |-> <<>>, log |-> <<>>]

RoadNetwork_get_or_create_node(net, lat, per_m) ==
    LET key == round6(lat, per_m) IN
    IF key \in DOMAIN net.lookup THEN [net |-> net, id |-> net.lookup[key]]
    ELSE LET node_id == Cardinality(DOMAIN net.coords)
         IN  [net |-> [net EXCEPT !.lookup = @ @@ (key :> node_id),
                                  !.coords = @ @@ (node_id :> lat),
                                  !.nodes = @ \cup {node_id}],
              id |-> node_id]

\* a plausible slip: the candidate read last replaces the stored weight
RoadNetwork_add_edge_last(net, e, dist) ==
    IF e \notin DOMAIN net.weight
    THEN [net EXCEPT !.weight = @ @@ (e :> dist)]
    ELSE [net EXCEPT !.weight[e] = dist]

\* "if existing is None or dist < existing.get("weight", inf): graph.add_edge(...)"
RoadNetwork_add_edge(net, e, dist) ==
    IF e \notin DOMAIN net.weight
    THEN [net EXCEPT !.weight = @ @@ (e :> dist)]
    ELSE IF dist < net.weight[e]
    THEN [net EXCEPT !.weight[e] = dist]
    ELSE net

\* the log keeps, with each vertex, the node that was prev_node when it was
\* read (None at the first valid vertex of a line)
RECURSIVE RoadNetwork_add_line_to_graph(_, _, _, _)
RoadNetwork_add_line_to_graph(net, coords, prev_node, per_m) ==
    IF coords = <<>> THEN net
    ELSE IF Head(coords) = None
    THEN RoadNetwork_add_line_to_graph(net, Tail(coords), prev_node, per_m)
    ELSE LET lat == Val(Head(coords))
             got == RoadNetwork_get_or_create_node(net, lat, per_m)
             node_id == got.id
             logged == [got.net EXCEPT !.log = Append(@, [lat |-> lat, id |-> node_id,
                                                          prev |-> prev_node])]
             e == {Val(prev_node), node_id}
             dist == _haversine_pair(logged.coords[Val(prev_node)], lat)
             with_edge ==
                 IF prev_node = None \/ Val(prev_node) = node_id THEN logged
                 ELSE IF 2 * dist < per_m THEN logged
                 ELSE RoadNetwork_add_edge(logged, e, dist)
         IN  RoadNetwork_add_line_to_graph(with_edge, Tail(coords), Some(node_id), per_m)

\* the lines of one geometry, one after the other
RECURSIVE RoadNetwork_add_lines(_, _, _)
RoadNetwork_add_lines(net, lines, per_m) ==
    IF lines = <<>> THEN net
    ELSE RoadNetwork_add_lines(RoadNetwork_add_line_to_graph(net, Head(lines), None, per_m),
                               Tail(lines), per_m)

\* a plausible slip: the highway test is left out
RoadNetwork_read_feature_any(net, feature, per_m) ==
    IF feature.lines = <<>> THEN net ELSE RoadNetwork_add_lines(net, feature.lines, per_m)

\* the body of the loop over the features: a feature is [highway, lines],
\* lines = <<>> standing for a missing geometry or empty coordinates
RoadNetwork_read_feature(net, feature, per_m) ==
    IF feature.lines = <<>> THEN net
    ELSE IF feature.highway = None THEN net
    ELSE RoadNetwork_add_lines(net, feature.lines, per_m)

RECURSIVE RoadNetwork_build_graph_from_geojson(_, _, _)
RoadNetwork_build_graph_from_geojson(net, feats, per_m) ==
    IF feats = <<>> THEN net
    ELSE RoadNetwork_build_graph_from_geojson(
             RoadNetwork_read_feature(net, Head(feats), per_m), Tail(feats), per_m)

\* the builder followed step by step, positions in millimetres
Mm == 1000
VertexArgs == {None, Some(0), Some(50), Some(60), Some(1000)}
LineArgs == [1..2 -> VertexArgs] \cup {<<Some(50), Some(1000), Some(0)>>}
FeatureArgs ==
    {[highway |-> Some("residential"), lines |-> <<l>>] : l \in LineArgs}
        \cup {[highway |-> None, lines |-> <<<<Some(0), Some(1000)>>>>],
              [highway |-> Some("primary"), lines |-> <<>>],
              [highway |-> Some("primary"),
               lines |-> <<<<Some(0), Some(1000)>>, <<Some(1000), Some(60)>>>>]}
FeatureLists == UNION {[1..n -> FeatureArgs] : n \in 0..MaxLines}

NetworkOf(net) == [nodes |-> net.nodes, weight |-> net.weight, lookup |-> net.lookup]

InitBuild ==
    /\ node_coords = <<>>
    /\ snap_tolerance_m = RoadNetworkTolerance(ROAD_SNAP_TOLERANCE_M)
    /\ tie_pref = "low"
    /\ graph = NetworkOf(NewNetwork)
    /\ IdleSnap
    /\ IdlePaths
    /\ IdleThreads
    /\ IdleDisk
    /\ IdleLoad
    /\ poi_df = <<>>
    /\ ring_out = [op |-> "none"]
    /\ rt_out = [op |-> "none"]
    /\ features \in FeatureLists
    /\ vertex_ids = <<>>
    /\ poi_file = <<>>
    /\ _df_cache = <<>>
    /\ df_out = [op |-> "none"]
    /\ nearby_out = [op |-> "none"]
    /\ ndm_out = [op |-> "none"]
    /\ weight_out = [op |-> "none"]
    /\ pathmap_out = [op |-> "none"]

\* one pass of "for feature in features"
ReadFeature ==
    /\ features # <<>>
    /\ \E net \in {RoadNetwork_read_feature(
                       [coords |-> node_coords, lookup |-> graph.lookup, nodes |-> graph.nodes,
                        weight |-> graph.weight, log |-> vertex_ids],
                       Head(features), Mm)} :
          /\ node_coords' = net.coords
          /\ graph' = NetworkOf(net)
          /\ vertex_ids' = net.log
    /\ features' = Tail(features)
    /\ UNCHANGED <<snap_tolerance_m, tie_pref, snap_out, pathVars, threads, diskVars, loadVars,
                   poi_df, ring_out, rt_out, poi_file, _df_cache, df_out, nearby_out, ndm_out, weight_out,
                   pathmap_out>>

NextBuild == ReadFeature

SpecBuild == InitBuild /\ [][NextBuild]_vars

\* ----------------------------------------------------------------- claim C13
\* the millionth of a degree nearest to a position given in millimetres
MicroDegreeOf(mm) == (2 * mm + MmPerMicroDegree) \div (2 * MmPerMicroDegree)

\* C13 as stated: any two vertices read by the builder that lie within the
\* rounding precision of each other (closer than a millionth of a degree,
\* 0.11 m) received one and the same node id, in one line or in different
\* lines.
C13_AsStated ==
    \A i, j \in DOMAIN vertex_ids :
        _haversine_pair(vertex_ids[i].lat, vertex_ids[j].lat) < MmPerMicroDegree =>
            vertex_ids[i].id = vertex_ids[j].id

\* C13: two vertices read by the builder received the same node id exactly
\* when their coordinates round to the same millionth of a degree; two lines
\* sharing an endpoint share its node.
C13_SameRoundedSameNode ==
    \A i, j \in DOMAIN vertex_ids :
        (MicroDegreeOf(vertex_ids[i].lat) = MicroDegreeOf(vertex_ids[j].lat))
            <=> (vertex_ids[i].id = vertex_ids[j].id)

\* two features read, the second one ending on a vertex that differs from a
\* vertex of the first but rounds to the same value, and on a shared endpoint
C13_Witness ==
    /\ features = <<>>
    /\ \E i, j \in DOMAIN vertex_ids :
          /\ vertex_ids[i].lat # vertex_ids[j].lat
          /\ vertex_ids[i].id = vertex_ids[j].id
    /\ \E i, j \in DOMAIN vertex_ids :
          /\ i + 1 < j
          /\ vertex_ids[i].lat = vertex_ids[j].lat
          /\ vertex_ids[i].id = vertex_ids[j].id
    /\ Cardinality(DOMAIN node_coords) >= 2

\* ------------------------------------------ SiteAnalysisService: nearby
\* the key items.sort gives an item without a truthy chosen_distance_km
SortLast == 1000000000

\* a plausible slip: a POI without a road distance gets no network distance
net_km_out_no_fallback(payload, k, include_network) ==
    IF include_network /\ k \in DOMAIN payload.net THEN Some(payload.net[k]) ELSE None

\* net_km_out: with include_network the road distance, or the straight line
\* where there is none
net_km_out(payload, k, include_network) ==
    IF include_network
    THEN IF k \in DOMAIN payload.net THEN Some(payload.net[k]) ELSE Some(payload.df[k])
    ELSE None

NearbyItem(payload, k, include_network, sort_by) ==
    LET hav_km == payload.df[k]
        net == net_km_out(payload, k, include_network)
    IN  [idx |-> k,
         distance_km |-> hav_km,
         network_distance_km |-> net,
         chosen_distance_km |-> IF sort_by = "haversine" THEN hav_km
                                ELSE IF net # None THEN Val(net) ELSE hav_km]

\* items.sort(key=lambda it: float(it.get("chosen_distance_km") or 1e9)):
\* a stable sort, and a distance of 0.0 counts as missing
SortKey(item) == IF item.chosen_distance_km = 0 THEN SortLast ELSE item.chosen_distance_km

RECURSIVE SortItems(_)
SortItems(items) ==
    IF items = <<>> THEN <<>>
    ELSE LET least == SetMin({SortKey(items[i]) : i \in DOMAIN items})
             first == SetMin({i \in DOMAIN items : SortKey(items[i]) = least})
         IN  <<items[first]>>
             \o SortItems([i \in 1..(Len(items) - 1) |->
                              IF i < first THEN items[i] ELSE items[i + 1]])

\* items[: max(1, int(limit))]
Limited(items, limit) == SubSeq(items, 1, SetMin({Len(items), MaxOf(1, limit)}))

\* nearby: the per-category preparation is the one of ring_summary with the
\* single radius of the call
nearby(coords, tie, tol, g, cache, df, lat, radius_km, limit, categories, include_network, sort_by) ==
    LET cats == IF categories # <<>> THEN categories ELSE POI_FILES
        use_net == include_network /\ g # NoGraph
        items(payload) ==
            LET rows == SortedSeq(DOMAIN payload.df)
            IN  [i \in DOMAIN rows |-> NearbyItem(payload, rows[i], include_network, sort_by)]
    IN  CHOOSE res \in
            {[cache |-> pc.cache,
              out |-> [cat \in DOMAIN pc.points |->
                          Limited(SortItems(items(pc.points[cat])), limit)]] :
                pc \in {PerCatPoints(coords, tie, tol, g, cache, df, lat, cats, radius_km,
                                     use_net)}} : TRUE

AggGraphs(coords) ==
    RingGraphs(coords)
        \cup {[nodes |-> DOMAIN coords,
               weight |-> [e \in {{0, 1}} |->
                              _haversine_pair(coords[SetMin(e)], coords[SetMax(e)])]]}
AggLats == {None, Some(0), Some(3 * StepM), Some(5 * StepM), Some(7 * StepM)}
AggRows == UNION {[1..n -> AggLats] : n \in 1..MaxPois}
AggTables == {("cafes" :> a) @@ ("banks" :> <<Some(5 * StepM)>>) : a \in AggRows}
AggRadii == {2 * StepM, 4 * StepM}
LimitArgs == {0, 1, 5}
AggCenters == {0, StepM, 4 * StepM, 7 * StepM}
IndexLists == {<<1, 2>>, <<10, 20>>, <<2>>}

InitAgg ==
    /\ node_coords = PathCoords
    /\ snap_tolerance_m = RoadNetworkTolerance(ROAD_SNAP_TOLERANCE_M)
    /\ tie_pref = "low"
    /\ graph \in AggGraphs(PathCoords)
    /\ IdleSnap
    /\ IdlePaths
    /\ IdleThreads
    /\ IdleDisk
    /\ IdleLoad
    /\ poi_df \in AggTables
    /\ ring_out = [op |-> "none"]
    /\ rt_out = [op |-> "none"]
    /\ IdleMore

Nearby ==
    /\ ncalls < MaxRingCalls
    /\ \E lat \in AggCenters, radius_km \in AggRadii, limit \in LimitArgs,
          categories \in CategoryArgs, include_network \in BOOLEAN, sort_by \in SortBy :
        \E r \in {nearby(node_coords, tie_pref, snap_tolerance_m, graph, _paths_cache, poi_df,
                         lat, radius_km, limit, categories, include_network, sort_by)} :
            /\ ncalls' = ncalls + 1
            /\ _paths_cache' = r.cache
            /\ nearby_out' = [op |-> "nearby", lat |-> lat, radius_km |-> radius_km,
                              limit |-> limit, categories |-> categories,
                              include_network |-> include_network, sort_by |-> sort_by,
                              out |-> r.out]
            /\ UNCHANGED <<netVars, snap_out, paths_out, recency, threads, diskVars, loadVars,
                           poi_df, ring_out, rt_out, features, vertex_ids, poi_file, _df_cache,
                           df_out, ndm_out, weight_out,
                   pathmap_out>>

\* _network_distance_map called on its own; the batch is empty when the
\* service has no road network to hand over
NetworkDistanceMap ==
    /\ ncalls < MaxRingCalls
    /\ graph # NoGraph
    /\ \E center_lat \in AggCenters, radius_m \in AggRadii, idx_list \in IndexLists :
        \E poi_lats \in [DOMAIN idx_list -> AggLats] :
        \E r \in {_network_distance_map(node_coords, tie_pref, snap_tolerance_m, graph,
                      _paths_cache, center_lat, idx_list, poi_lats, radius_m)} :
            /\ ncalls' = ncalls + 1
            /\ _paths_cache' = r.cache
            /\ ndm_out' = [op |-> "_network_distance_map", center_lat |-> center_lat,
                           idx_list |-> idx_list, poi_lats |-> poi_lats,
                           radius_m |-> radius_m,
                           stages |-> TieredSnapStages(node_coords, tie_pref,
                                                       snap_tolerance_m, poi_lats),
                           res |-> r.res]
            /\ UNCHANGED <<netVars, snap_out, paths_out, recency, threads, diskVars, loadVars,
                           poi_df, ring_out, rt_out, features, vertex_ids, poi_file, _df_cache,
                           df_out, nearby_out, weight_out, pathmap_out>>

NextAgg == Nearby \/ NetworkDistanceMap

SpecAgg == InitAgg /\ [][NextAgg]_vars
\* C14: after each later pass of the tiered snapping, a POI that an earlier
\* pass snapped keeps its node and its offset, and a POI no earlier pass
\* snapped holds what a snap at this pass's tolerance gives: the nearest
\* node and its distance if within the tolerance, nothing otherwise.
C14_TiersOnlyFill ==
    ndm_out.op = "_network_distance_map" =>
        \A i \in DOMAIN ndm_out.poi_lats, u \in 2..3 :
            LET prev == ndm_out.stages[u - 1]
                cur == ndm_out.stages[u]
                fresh == IF ndm_out.poi_lats[i] = None THEN Unsnapped
                         ELSE snap_point(node_coords, tie_pref, snap_tolerance_m,
                                         Val(ndm_out.poi_lats[i]), Some(SnapTiers[u]))
            IN  IF ~SnapFailed(prev, i)
                THEN cur.nodes[i] = prev.nodes[i] /\ cur.offsets[i] = prev.offsets[i]
                ELSE IF fresh.node = None THEN SnapFailed(cur, i)
                     ELSE cur.nodes[i] = fresh.node /\ cur.offsets[i] = Val(fresh.offset)

\* a batch with one POI snapped by the first pass and one filled by the
\* second, both untouched by the third
C14_Witness ==
    /\ ndm_out.op = "_network_distance_map"
    /\ \E i, j \in DOMAIN ndm_out.poi_lats :
        /\ ~SnapFailed(ndm_out.stages[1], i)
        /\ SnapFailed(ndm_out.stages[1], j)
        /\ ~SnapFailed(ndm_out.stages[2], j)
        /\ ndm_out.stages[3] = ndm_out.stages[2]
\* C18: _network_distance_map has an entry for a POI exactly when the POI is
\* snapped, its node is within radius_m of the centre's node along the graph,
\* and path + centre offset + POI offset <= radius_m; the entry's key is the
\* element of poi_indices at the POI's position and its value is that total
\* (metres here, the code's kilometres times 1000).
NdmCenter == SnapCenter(node_coords, tie_pref, snap_tolerance_m, ndm_out.center_lat)
NdmTotal(i) ==
    GraphDistance(graph, Val(NdmCenter.node), Val(ndm_out.stages[3].nodes[i]))
        + OrZero(NdmCenter.offset) + ndm_out.stages[3].offsets[i]
NdmExpected(i) ==
    /\ ~SnapFailed(ndm_out.stages[3], i)
    /\ Connected(graph, Val(NdmCenter.node), Val(ndm_out.stages[3].nodes[i]))
    /\ GraphDistance(graph, Val(NdmCenter.node), Val(ndm_out.stages[3].nodes[i]))
           <= ndm_out.radius_m
    /\ NdmTotal(i) <= ndm_out.radius_m
C18_EntriesByOriginalIndex ==
    ndm_out.op = "_network_distance_map" =>
        /\ DOMAIN ndm_out.res
               = {ndm_out.idx_list[i] : i \in {j \in DOMAIN ndm_out.idx_list : NdmExpected(j)}}
        /\ \A i \in DOMAIN ndm_out.idx_list :
               NdmExpected(i) => ndm_out.res[ndm_out.idx_list[i]] = NdmTotal(i)

\* a batch indexed 10, 20 where the first POI gets an entry, with a path
\* and a centre offset in its total, and the second, though snapped, gets none
C18_Witness ==
    /\ ndm_out.op = "_network_distance_map"
    /\ ndm_out.idx_list = <<10, 20>>
    /\ DOMAIN ndm_out.res = {10}
    /\ OrZero(NdmCenter.offset) > 0
    /\ ~SnapFailed(ndm_out.stages[3], 2)
    /\ ndm_out.res[10] > OrZero(NdmCenter.offset) + ndm_out.stages[3].offsets[1]
\* the road distance from a centre to a POI where the graph gives one within
\* the radius, by the walks of the graph
RoadDistanceWithin(center_lat, poi_lat, radius_m) ==
    IF graph = NoGraph \/ node_count(node_coords) = 0 THEN None
    ELSE LET c == snap_point(node_coords, tie_pref, snap_tolerance_m, center_lat, Some(Inf))
             q == snap_point(node_coords, tie_pref, snap_tolerance_m, poi_lat, Some(Inf))
         IN  IF ~Connected(graph, Val(c.node), Val(q.node)) THEN None
             ELSE LET total == GraphDistance(graph, Val(c.node), Val(q.node))
                                   + Val(c.offset) + Val(q.offset)
                  IN  IF total <= radius_m THEN Some(total) ELSE None

\* the rows of a category nearby has to report: a latitude, within the radius
InRadiusRows(cat) ==
    IF cat \notin DOMAIN poi_df THEN {}
    ELSE {k \in DOMAIN poi_df[cat] :
             /\ poi_df[cat][k] # None
             /\ _haversine_pair(nearby_out.lat, Val(poi_df[cat][k])) <= nearby_out.radius_km}

NearbyCats == IF nearby_out.categories # <<>> THEN nearby_out.categories ELSE POI_FILES

\* C19: with include_network, nearby answers (it does not raise), every
\* category with a POI in the radius is in the answer, its items are distinct
\* POIs in the radius, as many of them as the limit allows, and every item
\* has a numeric network_distance_km: the road distance where the graph gives
\* one within the radius, the haversine distance otherwise.
C19_NetworkDistanceFallback ==
    (nearby_out.op = "nearby" /\ nearby_out.include_network) =>
        /\ DOMAIN nearby_out.out = {cat \in SeqRange(NearbyCats) : InRadiusRows(cat) # {}}
        /\ \A cat \in DOMAIN nearby_out.out :
            LET items == nearby_out.out[cat] IN
            /\ Len(items) = SetMin({Cardinality(InRadiusRows(cat)), MaxOf(1, nearby_out.limit)})
            /\ \A i, j \in DOMAIN items : items[i].idx = items[j].idx => i = j
            /\ \A i \in DOMAIN items :
                LET poi_lat == Val(poi_df[cat][items[i].idx])
                    hav == _haversine_pair(nearby_out.lat, poi_lat)
                    road == RoadDistanceWithin(nearby_out.lat, poi_lat, nearby_out.radius_km)
                IN  /\ items[i].idx \in InRadiusRows(cat)
                    /\ items[i].distance_km = hav
                    /\ items[i].network_distance_km = IF road # None THEN road ELSE Some(hav)

\* an answer with two cafes in the radius, one reported with its road
\* distance, longer than the straight line, and one the graph does not reach,
\* reported with the haversine distance
C19_Witness ==
    /\ nearby_out.op = "nearby"
    /\ nearby_out.include_network
    /\ graph # NoGraph
    /\ "cafes" \in DOMAIN nearby_out.out
    /\ \E i, j \in DOMAIN nearby_out.out["cafes"] :
        LET a == nearby_out.out["cafes"][i]
            b == nearby_out.out["cafes"][j]
        IN  /\ Val(a.network_distance_km) > a.distance_km
            /\ b.network_distance_km = Some(b.distance_km)
            /\ RoadDistanceWithin(nearby_out.lat, Val(poi_df["cafes"][b.idx]),
                                  nearby_out.radius_km) = None
\* C20: ring_summary counts by one distance source per call: with
\* sort_by = "haversine" a ring counts the POIs whose haversine distance is
\* within the ring's radius, and with sort_by = "network" it counts the POIs
\* whose road distance is, a POI without a road distance being counted nowhere.
RingRows(cat) ==
    IF cat \notin DOMAIN poi_df THEN {} ELSE {k \in DOMAIN poi_df[cat] : poi_df[cat][k] # None}
RingCats == IF ring_out.categories # <<>> THEN ring_out.categories ELSE POI_FILES
C20_SourceNotMixed ==
    ring_out.op = "ring_summary" =>
        \A i \in DOMAIN ring_out.rings : \A cat \in SeqRange(RingCats) :
            LET r == ring_out.rings[i].radius_km
                hav(k) == _haversine_pair(ring_out.lat, Val(poi_df[cat][k]))
                road(k) == RoadDistanceWithin(ring_out.lat, Val(poi_df[cat][k]), r)
            IN  /\ ring_out.sort_by = "haversine" =>
                       CountIn(ring_out.rings[i], cat)
                           = Cardinality({k \in RingRows(cat) : hav(k) <= r})
                /\ ring_out.sort_by = "network" =>
                       CountIn(ring_out.rings[i], cat)
                           = Cardinality({k \in RingRows(cat) : road(k) # None})
\* C15: distance_between returns None exactly when an endpoint does not snap
\* or the two snapped nodes are not connected; for one common node it returns
\* the sum of the two offsets; otherwise the length of the shortest walk
\* between the two nodes plus both offsets, on a cache hit as on a miss.
C15_DistanceBetween ==
    paths_out.op = "distance_between" =>
        LET a == snap_point(node_coords, tie_pref, snap_tolerance_m, paths_out.lat_a,
                            paths_out.max_snap_m)
            b == snap_point(node_coords, tie_pref, snap_tolerance_m, paths_out.lat_b,
                            paths_out.max_snap_m)
        IN  IF a.node = None \/ b.node = None THEN paths_out.res = None
            ELSE IF a.node = b.node
            THEN paths_out.res = Some(OrZero(a.offset) + OrZero(b.offset))
            ELSE IF ~Connected(graph, Val(a.node), Val(b.node)) THEN paths_out.res = None
            ELSE paths_out.res = Some(GraphDistance(graph, Val(a.node), Val(b.node))
                                          + OrZero(a.offset) + OrZero(b.offset))

\* a distance between two different nodes, one endpoint off its node,
\* answered from a search tree that an earlier call left in the cache
C15_Witness ==
    /\ paths_out.op = "distance_between"
    /\ paths_out.hit
    /\ paths_out.res # None
    /\ LET a == snap_point(node_coords, tie_pref, snap_tolerance_m, paths_out.lat_a,
                           paths_out.max_snap_m)
           b == snap_point(node_coords, tie_pref, snap_tolerance_m, paths_out.lat_b,
                           paths_out.max_snap_m)
       IN  /\ a.node # b.node
           /\ OrZero(a.offset) + OrZero(b.offset) > 0
           /\ Val(paths_out.res) > OrZero(a.offset) + OrZero(b.offset)
\* ------------------------------------------------- queries one after another
\* every endpoint builds its own SiteAnalysisService and asks it for the road
\* network; here thread t stands for the t-th service object, and a query
\* runs only while no other query is under way
NoOtherQuery(t) == \A u \in Threads \ {t} : threads[u].at \in {"idle", "returned"}

InitSeq ==
    /\ InitLoad
    /\ guard = "method"

Query(t) ==
    /\ NoOtherQuery(t)
    /\ \/ CallGetRoadNetwork(t)
       \/ CheckCacheValid(t)
       \/ LoadCacheFile(t)
       \/ BuildGraph(t)
       \/ OpenCacheForWrite(t)
       \/ FinishCacheWrite(t)
       \/ StoreAndReturn(t)

NextSeq == (\E t \in Threads : Query(t)) \/ Tick \/ TouchSource

SpecSeq == InitSeq /\ [][NextSeq]_vars

\* the road network objects handed to the queries so far
Returned == UNION {SeqRange(threads[t].rets) : t \in Threads}

\* C16: while the road file is as it was at the start, the queries of one
\* process, run one after another, have built the graph from the road file
\* at most once and have all been handed one and the same road network
\* object, so that at most one was ever constructed.
C16_ConstructedOnce ==
    source_mtime = 1 =>
        /\ nbuilds <= 1
        /\ Cardinality(Returned) <= 1
\* ------------------------------------- SiteAnalysisService: load_category_df
\* a CSV on disk is None or <<[mtime, content]>>, content numbering the
\* versions of the file; a table is the content it was read from, and the
\* empty DataFrame is 0
EmptyFrame == 0

\* load_category_df: the cached table while the cache entry's mtime is not
\* older than the file's, else the file is read and the entry replaced
load_category_df(df_cache, files, category) ==
    IF category \notin Categories \/ files[category] = None
    THEN [cache |-> df_cache, df |-> EmptyFrame, read |-> FALSE]
    ELSE LET mtime == Val(files[category]).mtime
             cached == df_cache[category]
         IN  IF cached # None /\ Val(cached).mtime >= mtime
             THEN [cache |-> df_cache, df |-> Val(cached).df, read |-> FALSE]
             ELSE LET df == Val(files[category]).content
                  IN  [cache |-> [df_cache EXCEPT ![category] =
                                     Some([mtime |-> mtime, df |-> df])],
                       df |-> df, read |-> TRUE]

CategoryNames == Categories \cup {"unknown"}
Mtimes == 1..MaxClock

InitDf ==
    /\ node_coords = <<>>
    /\ snap_tolerance_m = RoadNetworkTolerance(ROAD_SNAP_TOLERANCE_M)
    /\ tie_pref = "low"
    /\ graph = NoGraph
    /\ IdleSnap
    /\ IdlePaths
    /\ IdleThreads
    /\ IdleDisk
    /\ IdleLoad
    /\ poi_df = <<>>
    /\ ring_out = [op |-> "none"]
    /\ rt_out = [op |-> "none"]
    /\ features = <<>>
    /\ vertex_ids = <<>>
    /\ poi_file \in [Categories -> {None} \cup {Some([mtime |-> m, content |-> 1]) : m \in Mtimes}]
    /\ _df_cache = [cat \in Categories |-> None]
    /\ df_out = [op |-> "none"]
    /\ nearby_out = [op |-> "none"]
    /\ ndm_out = [op |-> "none"]
    /\ weight_out = [op |-> "none"]
    /\ pathmap_out = [op |-> "none"]

DfFrame ==
    UNCHANGED <<netVars, snap_out, pathVars, threads, diskVars, loadVars, poi_df, ring_out,
                rt_out, features, vertex_ids, nearby_out, ndm_out, weight_out,
                   pathmap_out>>

\* the CSV of a category is written anew: other content, and a modification
\* time that is later or, for a file copied or restored with its old
\* timestamp, earlier
ReplaceFile ==
    \E cat \in Categories, m \in Mtimes :
        /\ ncalls < MaxEdits
        /\ IF poi_file[cat] = None THEN TRUE ELSE Val(poi_file[cat]).mtime # m
        /\ poi_file' = [poi_file EXCEPT ![cat] = Some([mtime |-> m, content |-> ncalls + 2])]
        /\ ncalls' = ncalls + 1
        /\ UNCHANGED <<_df_cache, df_out, _paths_cache, paths_out, recency>>
        /\ UNCHANGED <<netVars, snap_out, threads, diskVars, loadVars, poi_df, ring_out,
                       rt_out, features, vertex_ids, nearby_out, ndm_out, weight_out,
                   pathmap_out>>

LoadCategoryDf ==
    \E category \in CategoryNames :
        \E r \in {load_category_df(_df_cache, poi_file, category)} :
            /\ _df_cache' = r.cache
            /\ df_out' = [op |-> "load_category_df", category |-> category,
                          file |-> IF category \in Categories THEN poi_file[category]
                                   ELSE None,
                          cached |-> IF category \in Categories THEN _df_cache[category]
                                     ELSE None,
                          df |-> r.df, read |-> r.read]
            /\ UNCHANGED poi_file
            /\ DfFrame

NextDf == ReplaceFile \/ LoadCategoryDf

SpecDf == InitDf /\ [][NextDf]_vars

\* C17: load_category_df returns the cached table only while the file has
\* the modification time it had when the table was read; after any change
\* of the modification time the call reads the file, returns the table of
\* the file as it is now, and the cache holds that table.
C17_RereadOnChange ==
    (df_out.op = "load_category_df" /\ df_out.file # None) =>
        /\ df_out.df = Val(df_out.file).content
        /\ (~df_out.read) =>
               (df_out.cached # None /\ Val(df_out.cached).mtime = Val(df_out.file).mtime)
\* -------------------------------------------- a road file without any road
\* the service over a network built from a short GeoJSON, positions in metres
RoadFileFeatures ==
    {[highway |-> None, lines |-> <<<<Some(0), Some(StepM)>>>>],
     [highway |-> Some("primary"), lines |-> <<>>],
     [highway |-> Some("residential"), lines |-> <<<<Some(0), Some(StepM), Some(3 * StepM)>>>>]}
RoadFiles == UNION {[1..n -> RoadFileFeatures] : n \in 0..MaxLines}

InitEmpty ==
    /\ features \in RoadFiles
    /\ \E net \in {RoadNetwork_build_graph_from_geojson(NewNetwork, features, 1)} :
          /\ node_coords = net.coords
          /\ graph = NetworkOf(net)
    /\ snap_tolerance_m = RoadNetworkTolerance(ROAD_SNAP_TOLERANCE_M)
    /\ tie_pref = "low"
    /\ IdleSnap
    /\ IdlePaths
    /\ IdleThreads
    /\ IdleDisk
    /\ IdleLoad
    /\ poi_df = ("cafes" :> <<Some(0), None, Some(3 * StepM)>>) @@ ("banks" :> <<Some(5 * StepM)>>)
    /\ ring_out = [op |-> "none"]
    /\ rt_out = [op |-> "none"]
    /\ vertex_ids = <<>>
    /\ poi_file = <<>>
    /\ _df_cache = <<>>
    /\ df_out = [op |-> "none"]
    /\ nearby_out = [op |-> "none"]
    /\ ndm_out = [op |-> "none"]
    /\ weight_out = [op |-> "none"]
    /\ pathmap_out = [op |-> "none"]

\* one call on the freshly built network
NextEmpty ==
    \/ ncalls = 0 /\ SnapPoint
    \/ ncalls = 0 /\ SnapPoints
    \/ snap_out.op = "none" /\ Nearby
    \/ snap_out.op = "none" /\ RingSummary

SpecEmpty == InitEmpty /\ [][NextEmpty]_vars

\* a feature the builder takes: it has coordinates and a highway property
Qualifying(feature) == feature.lines # <<>> /\ feature.highway # None

\* C12: for a road file without a qualifying feature the built network has
\* no node; snap_point and snap_points leave every point unsnapped whatever
\* the tolerance; nearby and ring_summary answer, and every POI is reported
\* and counted by its haversine distance.
C12_EmptyNetwork ==
    (\A i \in DOMAIN features : ~Qualifying(features[i])) =>
        /\ node_count(node_coords) = 0
        /\ snap_out.op = "snap_point" => snap_out.res = Unsnapped
        /\ snap_out.op = "snap_points" =>
               \A i \in DOMAIN snap_out.lats :
                   snap_out.res.nodes[i] = None /\ snap_out.res.offsets[i] = Inf
        /\ nearby_out.op = "nearby" =>
               /\ DOMAIN nearby_out.out
                      = {cat \in SeqRange(NearbyCats) : InRadiusRows(cat) # {}}
               /\ \A cat \in DOMAIN nearby_out.out : \A i \in DOMAIN nearby_out.out[cat] :
                      LET item == nearby_out.out[cat][i]
                          hav == _haversine_pair(nearby_out.lat, Val(poi_df[cat][item.idx]))
                      IN  /\ item.distance_km = hav
                          /\ item.chosen_distance_km = hav
                          /\ item.network_distance_km
                                 = IF nearby_out.include_network THEN Some(hav) ELSE None
        /\ ring_out.op = "ring_summary" =>
               \A i \in DOMAIN ring_out.rings : \A cat \in SeqRange(RingCats) :
                   CountIn(ring_out.rings[i], cat)
                       = Cardinality({k \in RingRows(cat) :
                                         _haversine_pair(ring_out.lat, Val(poi_df[cat][k]))
                                             <= ring_out.rings[i].radius_km})

\* a road file of two features, neither qualifying, and a nearby query by
\* network distance that reports two cafes
C12_Witness ==
    /\ Len(features) = 2
    /\ \A i \in DOMAIN features : ~Qualifying(features[i])
    /\ \E i \in DOMAIN features : features[i].lines # <<>>
    /\ node_count(node_coords) = 0
    /\ nearby_out.op = "nearby"
    /\ nearby_out.include_network
    /\ nearby_out.sort_by = "network"
    /\ "cafes" \in DOMAIN nearby_out.out
    /\ Len(nearby_out.out["cafes"]) = 2
\* ------------------------------------- RoadNetwork: build, persist, reload
\* a RoadNetwork object: the graph, the node table, the tolerance and its own
\* path cache, as __init__ leaves them
RoadNetwork_init(g, coords, tol) ==
    [graph |-> g, node_coords |-> coords, snap_tolerance_m |-> RoadNetworkTolerance(tol),
     _paths_cache |-> <<>>]

\* a plausible slip: only the node table of the graph is written
PickledGraph_nodes_only(g) == [nodes |-> g.nodes, weight |-> <<>>]

\* the graph as pickle writes and reads it: nodes, edges and their weights
PickledGraph(g) == [nodes |-> g.nodes, weight |-> g.weight]

\* _save_cache: the file holds the graph and the node table, nothing else
RoadNetwork_save_cache(inst, now) ==
    [mtime |-> now, version |-> None, payload |-> "ok",
     data |-> [graph |-> PickledGraph(inst.graph), node_coords |-> inst.node_coords]]

\* _load_cache: a new object around what the file holds
RoadNetwork_load_cache(file, tol) ==
    RoadNetwork_init(file.data.graph, file.data.node_coords, tol)

\* from_geojson with a cache path, the road file holding the features feats
RoadNetwork_from_geojson(feats, file, src_mtime, now, tol) ==
    IF _cache_is_valid(file, src_mtime)
    THEN [inst |-> RoadNetwork_load_cache(file, tol), file |-> file, outcome |-> "cache"]
    ELSE CHOOSE r \in
             {[inst |-> inst, file |-> RoadNetwork_save_cache(inst, now),
               outcome |-> "rebuilt"] :
                 inst \in {RoadNetwork_init([nodes |-> net.nodes, weight |-> net.weight],
                                            net.coords, tol) :
                              net \in {RoadNetwork_build_graph_from_geojson(
                                           NewNetwork, feats, 1)}}} : TRUE

node_count_of(inst) == Cardinality(DOMAIN inst.node_coords)
edge_count_of(inst) == Cardinality(DOMAIN inst.graph.weight)

TripFeatures ==
    RoadFileFeatures
        \cup {[highway |-> Some("primary"), lines |-> <<<<Some(StepM), Some(4 * StepM)>>>>]}
TripFiles == UNION {[1..n -> TripFeatures] : n \in 0..MaxLines}

\* no object yet; the road file is written before or after the clock starts
InitTrip ==
    /\ features \in TripFiles
    /\ node_coords = <<>>
    /\ graph = NoGraph
    /\ snap_tolerance_m = RoadNetworkTolerance(ROAD_SNAP_TOLERANCE_M)
    /\ tie_pref = "low"
    /\ IdleSnap
    /\ IdlePaths
    /\ IdleThreads
    /\ variant = "RoadNetwork"
    /\ clock = 1
    /\ source_mtime = 1
    /\ cache_file = None
    /\ load_out = [op |-> "none", calls |-> <<>>]
    /\ IdleLoad
    /\ poi_df = <<>>
    /\ ring_out = [op |-> "none"]
    /\ rt_out = [op |-> "none"]
    /\ vertex_ids = <<>>
    /\ poi_file = <<>>
    /\ _df_cache = <<>>
    /\ df_out = [op |-> "none"]
    /\ nearby_out = [op |-> "none"]
    /\ ndm_out = [op |-> "none"]
    /\ weight_out = [op |-> "none"]
    /\ pathmap_out = [op |-> "none"]

\* RoadNetwork.from_geojson(path, cache_path): the caller holds the new object
\* from now on; calls lists, per call, what the object it got looked like
FromGeojsonCached ==
    /\ Len(load_out.calls) < MaxCalls
    /\ \E r \in {RoadNetwork_from_geojson(features, cache_file, source_mtime, clock,
                                          ROAD_SNAP_TOLERANCE_M)} :
          /\ node_coords' = r.inst.node_coords
          /\ graph' = r.inst.graph
          /\ snap_tolerance_m' = r.inst.snap_tolerance_m
          /\ _paths_cache' = r.inst._paths_cache
          /\ cache_file' = r.file
          /\ load_out' = [op |-> "from_geojson",
                          calls |-> Append(load_out.calls,
                                       [outcome |-> r.outcome,
                                        node_count |-> node_count_of(r.inst),
                                        edge_count |-> edge_count_of(r.inst),
                                        paths_cached |-> Len(r.inst._paths_cache),
                                        held_before |-> Len(_paths_cache)])]
    /\ UNCHANGED <<tie_pref, snap_out, paths_out, ncalls, recency, threads, variant, clock,
                   source_mtime, loadVars, svcVars>>

\* one path query in a behaviour is enough to fill the path cache
NextTrip == FromGeojsonCached \/ (ncalls = 0 /\ ShortestPathsFrom) \/ Tick

SpecTrip == InitTrip /\ [][NextTrip]_vars

\* C21: with the road file unchanged, a from_geojson call that follows
\* another returns an object with the node_count and the edge_count of the
\* object built first, and with no entry in its path cache.
C21_RoundTrip ==
    \A i \in DOMAIN load_out.calls :
        /\ load_out.calls[i].node_count = load_out.calls[1].node_count
        /\ load_out.calls[i].edge_count = load_out.calls[1].edge_count
        /\ load_out.calls[i].paths_cached = 0
        /\ i > 1 => load_out.calls[i].outcome = "cache"

\* a graph with nodes and edges is built and saved, its path cache is used,
\* and the next call reloads it from the file
C21_Witness ==
    /\ Len(load_out.calls) >= 2
    /\ load_out.calls[1].outcome = "rebuilt"
    /\ load_out.calls[2].outcome = "cache"
    /\ load_out.calls[2].edge_count >= 2
    /\ load_out.calls[2].held_before > 0
\* ------------------------------------------------------ _weight, checked
WeightArgs == {0 - StepM, 0, StepM \div 2, StepM, 3 * StepM, 10 * StepM}

InitWeight ==
    /\ node_coords = <<>>
    /\ snap_tolerance_m = RoadNetworkTolerance(ROAD_SNAP_TOLERANCE_M)
    /\ tie_pref = "low"
    /\ graph = NoGraph
    /\ IdleSnap
    /\ IdlePaths
    /\ IdleThreads
    /\ IdleDisk
    /\ IdleLoad
    /\ IdleSvc

Weight ==
    \E d \in WeightArgs \ {0 - StepM}, r \in WeightArgs, k \in WeightArgs :
        /\ weight_out' = [op |-> "_weight", distance_km |-> d, radius_km |-> r,
                          decay_scale_km |-> k, res |-> _weight(d, r, k)]
        /\ UNCHANGED <<netVars, snap_out, pathVars, threads, diskVars, loadVars, poi_df,
                       ring_out, rt_out, features, vertex_ids, poi_file, _df_cache, df_out,
                       nearby_out, ndm_out, pathmap_out>>

NextWeight == Weight

SpecWeight == InitWeight /\ [][NextWeight]_vars

\* C22: for a radius r > 0, a decay scale k > 0 and a distance d >= r,
\* _weight(d, r, k) is 0.
C22_ZeroBeyondRadius ==
    (/\ weight_out.op = "_weight"
     /\ weight_out.radius_km > 0
     /\ weight_out.decay_scale_km > 0
     /\ weight_out.distance_km >= weight_out.radius_km) => weight_out.res = 0

\* a weight asked for beyond the radius, where the decay factor is not 0, and
\* one asked for inside the radius, which is not 0
C22_Witness ==
    /\ weight_out.op = "_weight"
    /\ weight_out.radius_km > 0
    /\ weight_out.decay_scale_km > 0
    /\ weight_out.distance_km > weight_out.radius_km
    /\ ExpNeg(weight_out.distance_km, weight_out.decay_scale_km) > 0
    /\ _weight(weight_out.radius_km \div 2, weight_out.radius_km, weight_out.decay_scale_km) > 0
\* C23: every shortest_paths_from and distance_between call on a RoadNetwork
\* that has answered other calls before returns what the same call returns
\* on a RoadNetwork whose path cache is empty.
C23_CacheTransparent ==
    /\ paths_out.op = "shortest_paths_from" =>
           paths_out.res = shortest_paths_from(graph, <<>>, Val(paths_out.key)[1],
                                               Val(paths_out.key)[2]).res
    /\ paths_out.op = "distance_between" =>
           paths_out.res = distance_between(node_coords, tie_pref, snap_tolerance_m, graph,
                                            <<>>, paths_out.lat_a, paths_out.lat_b, None).res

\* a distance answered from the cache after entries have been evicted, while
\* the cache also holds a cutoff-bounded tree of the same source node
C23_Witness ==
    /\ paths_out.op = "distance_between"
    /\ paths_out.hit
    /\ paths_out.res # None
    /\ Len(recency) > _paths_cache_size
    /\ \E i \in DOMAIN _paths_cache :
           /\ _paths_cache[i].key[1] = Val(paths_out.key)[1]
           /\ _paths_cache[i].key[2] # None

\* --------------------------------------------- one ring, alone or with others
\* the ring a call with the single radius r reports, all else as in the call
\* that was made
RingAlone(r) ==
    ring_summary(node_coords, tie_pref, snap_tolerance_m, graph, <<>>, poi_df, ring_out.lat,
                 <<r>>, ring_out.categories, ring_out.decay_scale_km,
                 ring_out.include_network, ring_out.sort_by).rings

\* C24: the ring reported for a radius (count, weight sum, average and
\* minimum distance of each category, and the totals) is the ring a call
\* with that radius alone reports
C24_RingIndependent ==
    ring_out.op = "ring_summary" =>
        \A i \in DOMAIN ring_out.rings :
            RingAlone(ring_out.rings[i].radius_km) = <<ring_out.rings[i]>>

\* ----------------------------------------------------------------- claim C25
\* the vertices that closed a segment between the two nodes of edge e
SegmentEnds(e) ==
    {i \in DOMAIN vertex_ids :
        IF vertex_ids[i].prev = None THEN FALSE
        ELSE {Val(vertex_ids[i].prev), vertex_ids[i].id} = e}

\* the length of the segment of the input that ends at vertex i
SegmentLength(i) == _haversine_pair(vertex_ids[i - 1].lat, vertex_ids[i].lat)

\* the distance the builder computed for it: from the recorded coordinate of
\* the previous node to the vertex
SegmentComputed(i) == _haversine_pair(node_coords[Val(vertex_ids[i].prev)], vertex_ids[i].lat)

NoLoopNoShortEdge ==
    \A e \in DOMAIN graph.weight : Cardinality(e) = 2 /\ 2 * graph.weight[e] >= Mm

\* C25 as stated: no self-loop, every weight at least 0.5 m, and the stored
\* weight of a pair is the least length of the segments of the input between
\* that pair, whatever the order in which they were read.
C25_AsStated ==
    /\ NoLoopNoShortEdge
    /\ \A e \in DOMAIN graph.weight :
          graph.weight[e] =
              SetMin({SegmentLength(i) : i \in {j \in SegmentEnds(e) : 2 * SegmentLength(j) >= Mm}})

\* C25: no self-loop, every weight at least 0.5 m, and the stored weight of a
\* pair is the least of the distances the builder computed for the segments
\* between that pair, each taken from the recorded coordinate of the previous
\* node to the vertex read.
C25_MinOfComputed ==
    /\ NoLoopNoShortEdge
    /\ \A e \in DOMAIN graph.weight :
          graph.weight[e] =
              SetMin({SegmentComputed(i) :
                         i \in {j \in SegmentEnds(e) : 2 * SegmentComputed(j) >= Mm}})

\* a pair of nodes joined by two segments for which the builder computed
\* different distances, the longer one read first
C25_Witness ==
    /\ features = <<>>
    /\ \E e \in DOMAIN graph.weight :
          \E i, j \in SegmentEnds(e) :
              /\ i < j
              /\ SegmentComputed(j) < SegmentComputed(i)
              /\ graph.weight[e] = SegmentComputed(j)

\* ----------------------------------------------------------------- claim C26
\* C26: two consecutive valid vertices of a coordinate sequence are the same
\* node or joined by a path of the built graph, also when they are less than
\* 0.5 m apart.
C26_LineConnected ==
    \A i \in DOMAIN vertex_ids :
        IF vertex_ids[i].prev = None THEN TRUE
        ELSE Connected(graph, Val(vertex_ids[i].prev), vertex_ids[i].id)

\* ----------------------------------------------------------------- claim C27
\* every item nearby has for a category, before the limit is applied
AllNearbyItems(cat) ==
    nearby(node_coords, tie_pref, snap_tolerance_m, graph, <<>>, poi_df, nearby_out.lat,
           nearby_out.radius_km, Len(poi_df[cat]) + 1, <<cat>>, nearby_out.include_network,
           nearby_out.sort_by).out[cat]

\* C27: for each category nearby returns at most max(1, limit) items, in
\* non-decreasing order of chosen_distance_km, and no POI of the category in
\* the radius that was left out is strictly nearer than a returned one.
C27_NearestFirst ==
    nearby_out.op = "nearby" =>
        \A cat \in DOMAIN nearby_out.out :
            LET items == nearby_out.out[cat]
                all == AllNearbyItems(cat)
            IN  /\ Len(items) <= MaxOf(1, nearby_out.limit)
                /\ \A i \in 1..(Len(items) - 1) :
                      items[i].chosen_distance_km <= items[i + 1].chosen_distance_km
                /\ \A j \in DOMAIN all :
                      (\A i \in DOMAIN items : items[i].idx # all[j].idx) =>
                          \A i \in DOMAIN items :
                              all[j].chosen_distance_km >= items[i].chosen_distance_km

\* ----------------------------------------------------------------- claim C28
\* C28: the decay scale the road-types endpoint echoes, and the one behind
\* every decayed_weight of its reachable list, is the decay_scale_km of the
\* request, whatever the radius.
C28_CallerDecayScale ==
    RoadTypesAnswered =>
        /\ rt_out.response.decay_scale_km = rt_out.decay_scale_km
        /\ \A i \in DOMAIN rt_out.response.reachable :
              LET item == rt_out.response.reachable[i]
              IN  item.decayed_weight = item.weight * ExpNeg(item.distance_km, rt_out.decay_scale_km)

\* ----------------------------------------------------------------- claim C29
\* the nearest node and the distance to it, no tolerance applied
NearestSnap(lat) ==
    LET idx == _nearest_node_index(node_coords, tie_pref, lat)
    IN  [node |-> idx, offset |-> _haversine_pair(lat, node_coords[Val(idx)])]

\* C29: on a graph with nodes the tiered snapping ends with a node for the
\* centre and for every POI that has a coordinate, and node and offset are
\* those of the nearest node, whichever pass found it.
C29_TiersEndAtNearest ==
    ndm_out.op = "_network_distance_map" =>
        /\ NdmCenter.node = NearestSnap(ndm_out.center_lat).node
        /\ NdmCenter.offset = Some(NearestSnap(ndm_out.center_lat).offset)
        /\ \A i \in DOMAIN ndm_out.poi_lats :
              ndm_out.poi_lats[i] # None =>
                  /\ ~SnapFailed(ndm_out.stages[3], i)
                  /\ ndm_out.stages[3].nodes[i] = NearestSnap(Val(ndm_out.poi_lats[i])).node
                  /\ ndm_out.stages[3].offsets[i] = NearestSnap(Val(ndm_out.poi_lats[i])).offset

\* a centre only the unlimited pass snaps, with one POI the first pass
\* snapped and one only the third pass did
C29_Witness ==
    /\ ndm_out.op = "_network_distance_map"
    /\ OrZero(NdmCenter.offset) > SECONDARY_SNAP_TOLERANCE_M
    /\ \E i, j \in DOMAIN ndm_out.poi_lats :
          /\ ~SnapFailed(ndm_out.stages[1], i)
          /\ SnapFailed(ndm_out.stages[2], j)
          /\ ~SnapFailed(ndm_out.stages[3], j)

\* ------------------------------------------------ pois.py: _network_path_map
\* nx.shortest_path(graph, source, target, weight="weight"): one of the walks
\* of least weight
shortest_path(g, source, target) ==
    CHOOSE w \in WalksFrom(g, <<source>>, target) :
        \A x \in WalksFrom(g, <<source>>, target) : WalkLength(g, w) <= WalkLength(g, x)

\* the centre, the coordinates of the nodes of the path, the POI
PathCoordsOf(coords, center_lat, node_path, poi_lat) ==
    <<center_lat>> \o [k \in DOMAIN node_path |-> coords[node_path[k]]] \o <<poi_lat>>

\* _network_path_map: the position of a POI in the batch mapped to the
\* coordinates of its path; radius_m is a parameter the body never reads
_network_path_map(coords, tie, tol, g, center_lat, poi_lats, radius_m) ==
    LET center == SnapCenter(coords, tie, tol, center_lat)
        poi == TieredSnapPoints(coords, tie, tol, poi_lats)
        snapped == {i \in DOMAIN poi_lats : ~SnapFailed(poi, i)}
        with_path == {i \in snapped :
                         IF Val(center.node) = Val(poi.nodes[i]) THEN TRUE
                         ELSE Connected(g, Val(center.node), Val(poi.nodes[i]))}
        node_path(i) == IF Val(center.node) = Val(poi.nodes[i]) THEN <<Val(center.node)>>
                        ELSE shortest_path(g, Val(center.node), Val(poi.nodes[i]))
    IN  IF center.node = None THEN EmptyDict
        ELSE [i \in with_path |->
                 PathCoordsOf(coords, center_lat, node_path(i), Val(poi_lats[i]))]

\* the helper called on its own with the cafes of the table as the batch
NetworkPathMap ==
    /\ ncalls < MaxRingCalls
    /\ graph # NoGraph
    /\ \E center_lat \in AggCenters, radius_m \in AggRadii :
          /\ ncalls' = ncalls + 1
          /\ pathmap_out' = [op |-> "_network_path_map", center_lat |-> center_lat,
                             poi_lats |-> poi_df["cafes"], radius_m |-> radius_m,
                             res |-> _network_path_map(node_coords, tie_pref, snap_tolerance_m,
                                         graph, center_lat, poi_df["cafes"], radius_m)]
          /\ UNCHANGED <<netVars, snap_out, _paths_cache, paths_out, recency, threads,
                         diskVars, loadVars, poi_df, ring_out, rt_out, features, vertex_ids,
                         poi_file, _df_cache, df_out, nearby_out, ndm_out, weight_out>>

NextPathMap == NetworkPathMap

SpecPathMap == InitAgg /\ [][NextPathMap]_vars

\* ----------------------------------------------------------------- claim C30
PathMapCenter == SnapCenter(node_coords, tie_pref, snap_tolerance_m, pathmap_out.center_lat)
PathMapPois == TieredSnapPoints(node_coords, tie_pref, snap_tolerance_m, pathmap_out.poi_lats)

\* C30: _network_path_map has a path for a POI only if the POI's node is
\* connected to the centre's node and the POI's network distance from the
\* centre (path + centre offset + POI offset) is within radius_m; every path
\* starts with the centre and ends with the POI's own coordinate.
C30_PathOnlyWithinRadius ==
    pathmap_out.op = "_network_path_map" =>
        \A i \in DOMAIN pathmap_out.res :
            LET path == pathmap_out.res[i]
                a == Val(PathMapCenter.node)
                b == Val(PathMapPois.nodes[i])
            IN  /\ Connected(graph, a, b)
                /\ GraphDistance(graph, a, b) + OrZero(PathMapCenter.offset)
                       + PathMapPois.offsets[i] <= pathmap_out.radius_m
                /\ path[1] = pathmap_out.center_lat
                /\ path[Len(path)] = Val(pathmap_out.poi_lats[i])
====
